---- MODULE Spec2Model ----
(***************************************************************************)
(* Grid alignment over a polygonal region: rasterizer, prefix-sum table,   *)
(* erosion test, flood fill and the cancellable alignment search.          *)
(*                                                                         *)
(* Numbers.  World and grid-local lengths are fixed-point integers.  A     *)
(* pose has spacing = 4 * RASTER_RESOLUTION units, so one raster cell      *)
(* (cellSize = spacing / RASTER_RESOLUTION) is 4 units, half a grid cell   *)
(* (spacing / 2) is a whole number of units for odd and even resolutions,  *)
(* and eps is one unit: smaller than any distance between two coordinates  *)
(* the model produces (these are multiples of half a raster cell), as      *)
(* 1e-7 is in the program.  Angles are whole degrees.                      *)
(***************************************************************************)
EXTENDS Integers, Sequences, FiniteSets, TLC

\* raster cells per grid-cell edge (8 in raster.ts, scaled down)
RASTER_RESOLUTION == 2
RASTER_MARGIN_CELLS == 2
\* the tolerance of erodeGridCell, in fixed-point units
eps == 1
\* largest step between candidate angles, in degrees (5 in the program, scaled up)
ROTATION_STEP_DEGREES == 45
ANGLE_BIN_RESOLUTION == 1
\* region vertices lie on the raster-cell corners 0..MaxCoord of the world
MaxCoord == 4

Floor(n, d) == n \div d
Ceil(n, d) == -((-n) \div d)
Max(a, b) == IF a >= b THEN a ELSE b
Min(a, b) == IF a <= b THEN a ELSE b
SetMin(S) == CHOOSE m \in S : \A e \in S : m <= e
SetMax(S) == CHOOSE m \in S : \A e \in S : m >= e
Range(f) == {f[i] : i \in DOMAIN f}

--------------------------------------------------------------------------
(* Regions.  A MultiPolygon is a sequence of polygons, a polygon a         *)
(* sequence of rings, a ring a sequence of points <<x, y>>.  `turned`      *)
(* stands for the sine and cosine of transformRegionToGrid at an angle     *)
(* that is no multiple of 90 degrees: the polygons as they lie after       *)
(* turning by -angle, one for each candidate angle other than 0.           *)

Spacing == 4 * RASTER_RESOLUTION
UnitsPerCell == Spacing \div RASTER_RESOLUTION

Rect(x0, y0, x1, y1) ==
    << <<x0 * UnitsPerCell, y0 * UnitsPerCell>>, <<x1 * UnitsPerCell, y0 * UnitsPerCell>>,
       <<x1 * UnitsPerCell, y1 * UnitsPerCell>>, <<x0 * UnitsPerCell, y1 * UnitsPerCell>> >>

Rings == {Rect(x0, y0, x1, y1) : x0 \in 0..MaxCoord, y0 \in 0..MaxCoord,
                                 x1 \in 0..MaxCoord, y1 \in 0..MaxCoord}

ProperRings == {Rect(r[1], r[2], r[3], r[4]) :
                  r \in {q \in (0..MaxCoord) \X (0..MaxCoord) \X (0..MaxCoord) \X (0..MaxCoord) :
                           q[1] < q[3] /\ q[2] < q[4]}}

NullRegion == [isNull |-> TRUE, polygons |-> <<>>, turned |-> <<>>]

--------------------------------------------------------------------------
(* raster.ts *)

transformRegionToGrid(rgn, g) ==
    LET src == IF g.angle = 0 THEN rgn.polygons ELSE rgn.turned[g.angle]
        ox == g.origin[1]
        oy == g.origin[2]
    IN [p \in DOMAIN src |->
         [r \in DOMAIN src[p] |->
           [k \in DOMAIN src[p][r] |->
              <<src[p][r][k][1] - ox, src[p][r][k][2] - oy>>]]]

PointsOf(polys) ==
    UNION {UNION {Range(polys[p][r]) : r \in DOMAIN polys[p]} : p \in DOMAIN polys}

\* faulty variant: a bounding box without area counts as no bounds
computeGridBoundsGridNoArea(polys) ==
    LET pts == PointsOf(polys)
    IN IF \/ pts = {}
          \/ SetMin({q[1] : q \in pts}) = SetMax({q[1] : q \in pts})
          \/ SetMin({q[2] : q \in pts}) = SetMax({q[2] : q \in pts})
       THEN [isNull |-> TRUE]
       ELSE [isNull |-> FALSE,
             minX |-> SetMin({q[1] : q \in pts}), minY |-> SetMin({q[2] : q \in pts}),
             maxX |-> SetMax({q[1] : q \in pts}), maxY |-> SetMax({q[2] : q \in pts})]

computeGridBoundsGrid(polys) ==
    LET pts == PointsOf(polys)
    IN IF pts = {} THEN [isNull |-> TRUE]
       ELSE [isNull |-> FALSE,
             minX |-> SetMin({q[1] : q \in pts}), minY |-> SetMin({q[2] : q \in pts}),
             maxX |-> SetMax({q[1] : q \in pts}), maxY |-> SetMax({q[2] : q \in pts})]

(* ctx.fill("evenodd") over one path holding every ring of every polygon,  *)
(* read back as alpha = 255.  Path vertices lie on pixel corners and the   *)
(* edges are axis-parallel, so a pixel is covered wholly or not at all and *)
(* is opaque iff its centre is inside under the even-odd rule.  The test   *)
(* works in doubled pixel coordinates, where the centre is (2x+1, 2y+1).   *)
EdgeCrosses(a, b, cx, cy) ==
    /\ (a[2] > cy) # (b[2] > cy)
    /\ IF b[2] > a[2]
       THEN (cx - a[1]) * (b[2] - a[2]) < (cy - a[2]) * (b[1] - a[1])
       ELSE (cx - a[1]) * (b[2] - a[2]) > (cy - a[2]) * (b[1] - a[1])

RingCrossings(ring, cx, cy) ==
    Cardinality({i \in DOMAIN ring :
                   EdgeCrosses(ring[i], ring[(i % Len(ring)) + 1], cx, cy)})

RECURSIVE SumSeq(_)
SumSeq(s) == IF s = <<>> THEN 0 ELSE Head(s) + SumSeq(Tail(s))

PathCrossings(path, cx, cy) ==
    SumSeq([p \in DOMAIN path |->
              SumSeq([r \in DOMAIN path[p] |-> RingCrossings(path[p][r], cx, cy)])])

fillMaskWithCanvas(mask, regionGrid) ==
    LET px(q) == <<2 * ((q[1] - mask.originGrid[1]) \div mask.cellSize),
                   2 * ((q[2] - mask.originGrid[2]) \div mask.cellSize)>>
        path == [p \in DOMAIN regionGrid |->
                  [r \in DOMAIN regionGrid[p] |->
                    [k \in DOMAIN regionGrid[p][r] |-> px(regionGrid[p][r][k])]]]
    IN [mask EXCEPT !.data =
          [di \in 0..(mask.width * mask.height - 1) |->
             IF PathCrossings(path, 2 * (di % mask.width) + 1,
                              2 * (di \div mask.width) + 1) % 2 = 1
             THEN 1 ELSE 0]]

(* buildPrefixSum.  st = [ps, x, rowSum] is the state of the loop over x   *)
(* in row y, rows = [ps, y] the state of the loop over y.                  *)
\* faulty variant: the entry of the row above is not added
RECURSIVE PrefixRowNoRowAbove(_, _, _)
PrefixRowNoRowAbove(mask, y, st) ==
    IF st.x >= mask.width THEN st.ps
    ELSE LET stride == mask.width + 1
             rowSum == st.rowSum + mask.data[y * mask.width + st.x]
             idx == (y + 1) * stride + (st.x + 1)
         IN PrefixRowNoRowAbove(mask, y, [ps |-> [st.ps EXCEPT ![idx] = rowSum],
                                          x |-> st.x + 1, rowSum |-> rowSum])

RECURSIVE PrefixRow(_, _, _)
PrefixRow(mask, y, st) ==
    IF st.x >= mask.width THEN st.ps
    ELSE LET stride == mask.width + 1
             rowSum == st.rowSum + mask.data[y * mask.width + st.x]
             idx == (y + 1) * stride + (st.x + 1)
         IN PrefixRow(mask, y, [ps |-> [st.ps EXCEPT ![idx] = st.ps[idx - stride] + rowSum],
                                x |-> st.x + 1, rowSum |-> rowSum])

RECURSIVE PrefixRows(_, _)
PrefixRows(mask, rows) ==
    IF rows.y >= mask.height THEN rows.ps
    ELSE PrefixRows(mask, [ps |-> PrefixRow(mask, rows.y,
                                            [ps |-> rows.ps, x |-> 0, rowSum |-> 0]),
                           y |-> rows.y + 1])

buildPrefixSum(mask) ==
    [mask EXCEPT !.prefixSum = PrefixRows(mask, [ps |-> mask.prefixSum, y |-> 0])]

computeGridSampleBounds(mask, spacing) ==
    LET minX == mask.originGrid[1]
        minY == mask.originGrid[2]
        maxX == mask.originGrid[1] + mask.width * mask.cellSize
        maxY == mask.originGrid[2] + mask.height * mask.cellSize
    IN [minX |-> Floor(minX, spacing), maxX |-> Ceil(maxX, spacing),
        minY |-> Floor(minY, spacing), maxY |-> Ceil(maxY, spacing)]

\* faulty variant: the lattice ends two cells within the mask
computeGridSampleBoundsWithOffsetInset(mask, spacing, offset) ==
    LET minX == mask.originGrid[1] - offset[1]
        minY == mask.originGrid[2] - offset[2]
        maxX == mask.originGrid[1] + mask.width * mask.cellSize - offset[1]
        maxY == mask.originGrid[2] + mask.height * mask.cellSize - offset[2]
    IN [minX |-> Floor(minX, spacing) + 2, maxX |-> Ceil(maxX, spacing) - 2,
        minY |-> Floor(minY, spacing) + 2, maxY |-> Ceil(maxY, spacing) - 2]

computeGridSampleBoundsWithOffset(mask, spacing, offset) ==
    LET minX == mask.originGrid[1] - offset[1]
        minY == mask.originGrid[2] - offset[2]
        maxX == mask.originGrid[1] + mask.width * mask.cellSize - offset[1]
        maxY == mask.originGrid[2] + mask.height * mask.cellSize - offset[2]
    IN [minX |-> Floor(minX, spacing), maxX |-> Ceil(maxX, spacing),
        minY |-> Floor(minY, spacing), maxY |-> Ceil(maxY, spacing)]

\* faulty variant: the inclusion-exclusion sum leaves out the corner term
erodeGridCellNoCorner(raster, gridPoint) ==
    LET mask == raster.mask
        halfEdge == raster.gridSpacing \div 2
        minGX == gridPoint[1] - halfEdge
        maxGX == gridPoint[1] + halfEdge
        minGY == gridPoint[2] - halfEdge
        maxGY == gridPoint[2] + halfEdge
        startX == Floor(minGX - mask.originGrid[1] + eps, mask.cellSize)
        endX == Ceil(maxGX - mask.originGrid[1] - eps, mask.cellSize) - 1
        startY == Floor(minGY - mask.originGrid[2] + eps, mask.cellSize)
        endY == Ceil(maxGY - mask.originGrid[2] - eps, mask.cellSize) - 1
        ps == mask.prefixSum
        stride == mask.width + 1
        x0 == startX
        x1 == endX + 1
        y0 == startY
        y1 == endY + 1
    IN IF startX < 0 \/ startY < 0 \/ endX >= mask.width \/ endY >= mask.height THEN FALSE
       ELSE IF endX < startX \/ endY < startY THEN FALSE
       ELSE LET area == ps[y1 * stride + x1] - ps[y0 * stride + x1]
                          - ps[y1 * stride + x0]
                expectedArea == (endX - startX + 1) * (endY - startY + 1)
            IN area = expectedArea

(* erodeGridCell: (v / cellSize) + eps is floored and (v / cellSize) - eps *)
(* ceiled; with eps one unit of the same scale as v this is the floor of   *)
(* (v + eps) / cellSize and the ceiling of (v - eps) / cellSize.           *)
erodeGridCell(raster, gridPoint) ==
    LET mask == raster.mask
        halfEdge == raster.gridSpacing \div 2
        minGX == gridPoint[1] - halfEdge
        maxGX == gridPoint[1] + halfEdge
        minGY == gridPoint[2] - halfEdge
        maxGY == gridPoint[2] + halfEdge
        startX == Floor(minGX - mask.originGrid[1] + eps, mask.cellSize)
        endX == Ceil(maxGX - mask.originGrid[1] - eps, mask.cellSize) - 1
        startY == Floor(minGY - mask.originGrid[2] + eps, mask.cellSize)
        endY == Ceil(maxGY - mask.originGrid[2] - eps, mask.cellSize) - 1
        ps == mask.prefixSum
        stride == mask.width + 1
        x0 == startX
        x1 == endX + 1
        y0 == startY
        y1 == endY + 1
    IN IF startX < 0 \/ startY < 0 \/ endX >= mask.width \/ endY >= mask.height THEN FALSE
       ELSE IF endX < startX \/ endY < startY THEN FALSE
       ELSE LET area == ps[y1 * stride + x1] - ps[y0 * stride + x1]
                          - ps[y1 * stride + x0] + ps[y0 * stride + x0]
                expectedArea == (endX - startX + 1) * (endY - startY + 1)
            IN area = expectedArea

sampleRasterAtGridPoint(raster, gridPoint) ==
    IF erodeGridCell(raster, gridPoint) THEN 1 ELSE 0

\* faulty variant: the flood fill also steps to one diagonal neighbour
directionsWithDiagonal == << <<1, 0>>, <<-1, 0>>, <<0, 1>>, <<0, -1>>, <<1, 1>> >>

directions == << <<1, 0>>, <<-1, 0>>, <<0, 1>>, <<0, -1>> >>

encode(gx, gy) == ToString(gx) \o "," \o ToString(gy)

(* computeLargestComponent.  st = [queue, visited, component] is the state *)
(* of one breadth-first expansion, acc = [visited, bestCount,              *)
(* bestComponent] the state of the row-major scan.                         *)
RECURSIVE ComponentNeighbours(_, _, _, _)
ComponentNeighbours(raster, cell, d, st) ==
    IF d > Len(directions) THEN st
    ELSE LET b == raster.gridSampleBounds
             width == b.maxX - b.minX + 1
             nx == cell[1] + directions[d][1]
             ny == cell[2] + directions[d][2]
             nIndex == (ny - b.minY) * width + (nx - b.minX)
             neighborCenter == <<nx * raster.gridSpacing, ny * raster.gridSpacing>>
         IN IF nx < b.minX \/ nx > b.maxX THEN ComponentNeighbours(raster, cell, d + 1, st)
            ELSE IF ny < b.minY \/ ny > b.maxY THEN ComponentNeighbours(raster, cell, d + 1, st)
            ELSE IF st.visited[nIndex] = 1 THEN ComponentNeighbours(raster, cell, d + 1, st)
            ELSE IF sampleRasterAtGridPoint(raster, neighborCenter) = 0
                 THEN ComponentNeighbours(raster, cell, d + 1,
                                          [st EXCEPT !.visited[nIndex] = 1])
            ELSE ComponentNeighbours(raster, cell, d + 1,
                                     [st EXCEPT !.visited[nIndex] = 1,
                                                !.component = @ \cup {encode(nx, ny)},
                                                !.queue = Append(@, <<nx, ny>>)])

RECURSIVE ComponentBfs(_, _)
ComponentBfs(raster, st) ==
    IF Len(st.queue) = 0 THEN st
    ELSE ComponentBfs(raster, ComponentNeighbours(raster, Head(st.queue), 1,
                                                  [st EXCEPT !.queue = Tail(@)]))

\* faulty variant: a later component of equal size replaces the best
RECURSIVE ComponentScanRowLastOfTies(_, _, _, _)
ComponentScanRowLastOfTies(raster, gy, gx, acc) ==
    LET b == raster.gridSampleBounds
        width == b.maxX - b.minX + 1
        vIndex == (gy - b.minY) * width + (gx - b.minX)
        gridCenter == <<gx * raster.gridSpacing, gy * raster.gridSpacing>>
    IN IF gx > b.maxX THEN acc
       ELSE IF acc.visited[vIndex] = 1 THEN ComponentScanRowLastOfTies(raster, gy, gx + 1, acc)
       ELSE IF sampleRasterAtGridPoint(raster, gridCenter) = 0
            THEN ComponentScanRowLastOfTies(raster, gy, gx + 1,
                                            [acc EXCEPT !.visited[vIndex] = 1])
       ELSE LET st == ComponentBfs(raster,
                         [queue |-> << <<gx, gy>> >>,
                          visited |-> [acc.visited EXCEPT ![vIndex] = 1],
                          component |-> {encode(gx, gy)}])
                size == Cardinality(st.component)
            IN ComponentScanRowLastOfTies(raster, gy, gx + 1,
                   IF size >= acc.bestCount
                   THEN [visited |-> st.visited, bestCount |-> size,
                         bestComponent |-> st.component]
                   ELSE [acc EXCEPT !.visited = st.visited])

RECURSIVE ComponentScanRow(_, _, _, _)
ComponentScanRow(raster, gy, gx, acc) ==
    LET b == raster.gridSampleBounds
        width == b.maxX - b.minX + 1
        vIndex == (gy - b.minY) * width + (gx - b.minX)
        gridCenter == <<gx * raster.gridSpacing, gy * raster.gridSpacing>>
    IN IF gx > b.maxX THEN acc
       ELSE IF acc.visited[vIndex] = 1 THEN ComponentScanRow(raster, gy, gx + 1, acc)
       ELSE IF sampleRasterAtGridPoint(raster, gridCenter) = 0
            THEN ComponentScanRow(raster, gy, gx + 1, [acc EXCEPT !.visited[vIndex] = 1])
       ELSE LET st == ComponentBfs(raster,
                         [queue |-> << <<gx, gy>> >>,
                          visited |-> [acc.visited EXCEPT ![vIndex] = 1],
                          component |-> {encode(gx, gy)}])
                size == Cardinality(st.component)
            IN ComponentScanRow(raster, gy, gx + 1,
                   IF size > acc.bestCount
                   THEN [visited |-> st.visited, bestCount |-> size,
                         bestComponent |-> st.component]
                   ELSE [acc EXCEPT !.visited = st.visited])

RECURSIVE ComponentScan(_, _, _)
ComponentScan(raster, gy, acc) ==
    IF gy > raster.gridSampleBounds.maxY THEN acc
    ELSE ComponentScan(raster, gy + 1,
                       ComponentScanRow(raster, gy, raster.gridSampleBounds.minX, acc))

computeLargestComponent(raster) ==
    LET b == raster.gridSampleBounds
        width == b.maxX - b.minX + 1
        height == b.maxY - b.minY + 1
        res == ComponentScan(raster, b.minY,
                   [visited |-> [i \in 0..(width * height - 1) |-> 0],
                    bestCount |-> 0, bestComponent |-> {}])
    IN [insideCells |-> res.bestComponent, count |-> res.bestCount]

(* countLargestComponentWithOffset.  st = [queue, visited, componentSize], *)
(* acc = [visited, bestCount].                                             *)
RECURSIVE CountNeighbours(_, _, _, _, _, _)
CountNeighbours(raster, offsetGrid, b, cell, d, st) ==
    IF d > Len(directions) THEN st
    ELSE LET width == b.maxX - b.minX + 1
             spacing == raster.gridSpacing
             nx == cell[1] + directions[d][1]
             ny == cell[2] + directions[d][2]
             nIndex == (ny - b.minY) * width + (nx - b.minX)
             neighborCenter == <<nx * spacing + offsetGrid[1], ny * spacing + offsetGrid[2]>>
         IN IF nx < b.minX \/ nx > b.maxX
            THEN CountNeighbours(raster, offsetGrid, b, cell, d + 1, st)
            ELSE IF ny < b.minY \/ ny > b.maxY
            THEN CountNeighbours(raster, offsetGrid, b, cell, d + 1, st)
            ELSE IF st.visited[nIndex] = 1
            THEN CountNeighbours(raster, offsetGrid, b, cell, d + 1, st)
            ELSE IF ~erodeGridCell(raster, neighborCenter)
            THEN CountNeighbours(raster, offsetGrid, b, cell, d + 1,
                                 [st EXCEPT !.visited[nIndex] = 1])
            ELSE CountNeighbours(raster, offsetGrid, b, cell, d + 1,
                                 [st EXCEPT !.visited[nIndex] = 1,
                                            !.queue = Append(@, <<nx, ny>>)])

RECURSIVE CountBfs(_, _, _, _)
CountBfs(raster, offsetGrid, b, st) ==
    IF Len(st.queue) = 0 THEN st
    ELSE CountBfs(raster, offsetGrid, b,
                  CountNeighbours(raster, offsetGrid, b, Head(st.queue), 1,
                                  [st EXCEPT !.queue = Tail(@),
                                             !.componentSize = @ + 1]))

RECURSIVE CountScanRow(_, _, _, _, _, _)
CountScanRow(raster, offsetGrid, b, gy, gx, acc) ==
    LET width == b.maxX - b.minX + 1
        spacing == raster.gridSpacing
        vIndex == (gy - b.minY) * width + (gx - b.minX)
        gridCenter == <<gx * spacing + offsetGrid[1], gy * spacing + offsetGrid[2]>>
    IN IF gx > b.maxX THEN acc
       ELSE IF acc.visited[vIndex] = 1
            THEN CountScanRow(raster, offsetGrid, b, gy, gx + 1, acc)
       ELSE IF ~erodeGridCell(raster, gridCenter)
            THEN CountScanRow(raster, offsetGrid, b, gy, gx + 1,
                              [acc EXCEPT !.visited[vIndex] = 1])
       ELSE LET st == CountBfs(raster, offsetGrid, b,
                         [queue |-> << <<gx, gy>> >>,
                          visited |-> [acc.visited EXCEPT ![vIndex] = 1],
                          componentSize |-> 0])
            IN CountScanRow(raster, offsetGrid, b, gy, gx + 1,
                   [visited |-> st.visited,
                    bestCount |-> IF st.componentSize > acc.bestCount
                                  THEN st.componentSize ELSE acc.bestCount])

RECURSIVE CountScan(_, _, _, _, _)
CountScan(raster, offsetGrid, b, gy, acc) ==
    IF gy > b.maxY THEN acc
    ELSE CountScan(raster, offsetGrid, b, gy + 1,
                   CountScanRow(raster, offsetGrid, b, gy, b.minX, acc))

countLargestComponentWithOffset(raster, offsetGrid) ==
    LET gridSampleBounds ==
            computeGridSampleBoundsWithOffset(raster.mask, raster.gridSpacing, offsetGrid)
        width == gridSampleBounds.maxX - gridSampleBounds.minX + 1
        height == gridSampleBounds.maxY - gridSampleBounds.minY + 1
    IN CountScan(raster, offsetGrid, gridSampleBounds,
                 gridSampleBounds.minY,
                 [visited |-> [i \in 0..(width * height - 1) |-> 0],
                  bestCount |-> 0]).bestCount

(* countLargestComponentWithOffset once more, with a record of what one    *)
(* run does: `classified` lists the lattice points handed to erodeGridCell *)
(* and `enqueued` the points put into the queue, in the order of the run;  *)
(* `sizes` lists componentSize of every component at the end of its        *)
(* expansion.                                                              *)

\* faulty variant: a neighbour found outside is not marked as visited
RECURSIVE TraceNeighboursUnmarked(_, _, _, _, _, _)
TraceNeighboursUnmarked(raster, offsetGrid, b, cell, d, st) ==
    IF d > Len(directions) THEN st
    ELSE LET width == b.maxX - b.minX + 1
             spacing == raster.gridSpacing
             nx == cell[1] + directions[d][1]
             ny == cell[2] + directions[d][2]
             nIndex == (ny - b.minY) * width + (nx - b.minX)
             neighborCenter == <<nx * spacing + offsetGrid[1], ny * spacing + offsetGrid[2]>>
             seen == [st EXCEPT !.classified = Append(@, <<nx, ny>>)]
         IN IF nx < b.minX \/ nx > b.maxX
            THEN TraceNeighboursUnmarked(raster, offsetGrid, b, cell, d + 1, st)
            ELSE IF ny < b.minY \/ ny > b.maxY
            THEN TraceNeighboursUnmarked(raster, offsetGrid, b, cell, d + 1, st)
            ELSE IF st.visited[nIndex] = 1
            THEN TraceNeighboursUnmarked(raster, offsetGrid, b, cell, d + 1, st)
            ELSE IF ~erodeGridCell(raster, neighborCenter)
            THEN TraceNeighboursUnmarked(raster, offsetGrid, b, cell, d + 1, seen)
            ELSE TraceNeighboursUnmarked(raster, offsetGrid, b, cell, d + 1,
                                         [seen EXCEPT !.visited[nIndex] = 1,
                                                      !.queue = Append(@, <<nx, ny>>),
                                                      !.enqueued = Append(@, <<nx, ny>>)])

RECURSIVE TraceNeighbours(_, _, _, _, _, _)
TraceNeighbours(raster, offsetGrid, b, cell, d, st) ==
    IF d > Len(directions) THEN st
    ELSE LET width == b.maxX - b.minX + 1
             spacing == raster.gridSpacing
             nx == cell[1] + directions[d][1]
             ny == cell[2] + directions[d][2]
             nIndex == (ny - b.minY) * width + (nx - b.minX)
             neighborCenter == <<nx * spacing + offsetGrid[1], ny * spacing + offsetGrid[2]>>
             seen == [st EXCEPT !.classified = Append(@, <<nx, ny>>)]
         IN IF nx < b.minX \/ nx > b.maxX
            THEN TraceNeighbours(raster, offsetGrid, b, cell, d + 1, st)
            ELSE IF ny < b.minY \/ ny > b.maxY
            THEN TraceNeighbours(raster, offsetGrid, b, cell, d + 1, st)
            ELSE IF st.visited[nIndex] = 1
            THEN TraceNeighbours(raster, offsetGrid, b, cell, d + 1, st)
            ELSE IF ~erodeGridCell(raster, neighborCenter)
            THEN TraceNeighbours(raster, offsetGrid, b, cell, d + 1,
                                 [seen EXCEPT !.visited[nIndex] = 1])
            ELSE TraceNeighbours(raster, offsetGrid, b, cell, d + 1,
                                 [seen EXCEPT !.visited[nIndex] = 1,
                                              !.queue = Append(@, <<nx, ny>>),
                                              !.enqueued = Append(@, <<nx, ny>>)])

RECURSIVE TraceBfs(_, _, _, _)
TraceBfs(raster, offsetGrid, b, st) ==
    IF Len(st.queue) = 0 THEN st
    ELSE TraceBfs(raster, offsetGrid, b,
                  TraceNeighbours(raster, offsetGrid, b, Head(st.queue), 1,
                                  [st EXCEPT !.queue = Tail(@),
                                             !.componentSize = @ + 1]))

RECURSIVE TraceScanRow(_, _, _, _, _, _)
TraceScanRow(raster, offsetGrid, b, gy, gx, acc) ==
    LET width == b.maxX - b.minX + 1
        spacing == raster.gridSpacing
        vIndex == (gy - b.minY) * width + (gx - b.minX)
        gridCenter == <<gx * spacing + offsetGrid[1], gy * spacing + offsetGrid[2]>>
        seen == [acc EXCEPT !.classified = Append(@, <<gx, gy>>)]
    IN IF gx > b.maxX THEN acc
       ELSE IF acc.visited[vIndex] = 1
            THEN TraceScanRow(raster, offsetGrid, b, gy, gx + 1, acc)
       ELSE IF ~erodeGridCell(raster, gridCenter)
            THEN TraceScanRow(raster, offsetGrid, b, gy, gx + 1,
                              [seen EXCEPT !.visited[vIndex] = 1])
       ELSE LET st == TraceBfs(raster, offsetGrid, b,
                         [queue |-> << <<gx, gy>> >>,
                          visited |-> [acc.visited EXCEPT ![vIndex] = 1],
                          componentSize |-> 0,
                          classified |-> seen.classified,
                          enqueued |-> Append(acc.enqueued, <<gx, gy>>)])
            IN TraceScanRow(raster, offsetGrid, b, gy, gx + 1,
                   [visited |-> st.visited,
                    bestCount |-> IF st.componentSize > acc.bestCount
                                  THEN st.componentSize ELSE acc.bestCount,
                    classified |-> st.classified,
                    enqueued |-> st.enqueued,
                    sizes |-> Append(acc.sizes, st.componentSize)])

RECURSIVE TraceScan(_, _, _, _, _)
TraceScan(raster, offsetGrid, b, gy, acc) ==
    IF gy > b.maxY THEN acc
    ELSE TraceScan(raster, offsetGrid, b, gy + 1,
                   TraceScanRow(raster, offsetGrid, b, gy, b.minX, acc))

countLargestComponentTrace(raster, offsetGrid) ==
    LET gridSampleBounds ==
            computeGridSampleBoundsWithOffset(raster.mask, raster.gridSpacing, offsetGrid)
        width == gridSampleBounds.maxX - gridSampleBounds.minX + 1
        height == gridSampleBounds.maxY - gridSampleBounds.minY + 1
    IN TraceScan(raster, offsetGrid, gridSampleBounds,
                 gridSampleBounds.minY,
                 [visited |-> [i \in 0..(width * height - 1) |-> 0],
                  bestCount |-> 0, classified |-> <<>>, enqueued |-> <<>>,
                  sizes |-> <<>>])

(* The earlier countLargestComponentWithOffset (src/src/raster.ts): the    *)
(* visited cells are a Set of the keys `${gx},${gy}`, the lattice bounds   *)
(* have one cell of slack and erodeGridCell reads the cells of the mask    *)
(* one by one.  st = [queue, visited, componentSize], acc = [visited,      *)
(* bestCount], visited a set of keys.                                      *)

\* faulty variant: the key of a cell names its column only
encodeColumnOnly(gx, gy) == ToString(gx)

\* const encode = (gx, gy) => `${gx},${gy}` of the earlier flood fill
encodeKey(gx, gy) == ToString(gx) \o "," \o ToString(gy)

computeGridSampleBoundsWithOffsetSlack(mask, spacing, offset) ==
    LET minX == mask.originGrid[1] - offset[1]
        minY == mask.originGrid[2] - offset[2]
        maxX == mask.originGrid[1] + mask.width * mask.cellSize - offset[1]
        maxY == mask.originGrid[2] + mask.height * mask.cellSize - offset[2]
    IN [minX |-> Floor(minX, spacing) - 1, maxX |-> Ceil(maxX, spacing) + 1,
        minY |-> Floor(minY, spacing) - 1, maxY |-> Ceil(maxY, spacing) + 1]

erodeGridCellLoop(raster, gridPoint) ==
    LET mask == raster.mask
        halfEdge == raster.gridSpacing \div 2
        minGX == gridPoint[1] - halfEdge
        maxGX == gridPoint[1] + halfEdge
        minGY == gridPoint[2] - halfEdge
        maxGY == gridPoint[2] + halfEdge
        startX == Floor(minGX - mask.originGrid[1] + eps, mask.cellSize)
        endX == Ceil(maxGX - mask.originGrid[1] - eps, mask.cellSize) - 1
        startY == Floor(minGY - mask.originGrid[2] + eps, mask.cellSize)
        endY == Ceil(maxGY - mask.originGrid[2] - eps, mask.cellSize) - 1
    IN IF startX < 0 \/ startY < 0 \/ endX >= mask.width \/ endY >= mask.height THEN FALSE
       ELSE IF endX < startX \/ endY < startY THEN FALSE
       ELSE \A y \in startY..endY, x \in startX..endX : mask.data[y * mask.width + x] # 0

RECURSIVE KeysNeighbours(_, _, _, _, _, _)
KeysNeighbours(raster, offsetGrid, b, cell, d, st) ==
    IF d > Len(directions) THEN st
    ELSE LET spacing == raster.gridSpacing
             nx == cell[1] + directions[d][1]
             ny == cell[2] + directions[d][2]
             nkey == encodeKey(nx, ny)
             neighborCenter == <<nx * spacing + offsetGrid[1], ny * spacing + offsetGrid[2]>>
         IN IF nx < b.minX \/ nx > b.maxX
            THEN KeysNeighbours(raster, offsetGrid, b, cell, d + 1, st)
            ELSE IF ny < b.minY \/ ny > b.maxY
            THEN KeysNeighbours(raster, offsetGrid, b, cell, d + 1, st)
            ELSE IF nkey \in st.visited
            THEN KeysNeighbours(raster, offsetGrid, b, cell, d + 1, st)
            ELSE IF ~erodeGridCellLoop(raster, neighborCenter)
            THEN KeysNeighbours(raster, offsetGrid, b, cell, d + 1,
                                [st EXCEPT !.visited = @ \cup {nkey}])
            ELSE KeysNeighbours(raster, offsetGrid, b, cell, d + 1,
                                [st EXCEPT !.visited = @ \cup {nkey},
                                           !.queue = Append(@, <<nx, ny>>)])

RECURSIVE KeysBfs(_, _, _, _)
KeysBfs(raster, offsetGrid, b, st) ==
    IF Len(st.queue) = 0 THEN st
    ELSE KeysBfs(raster, offsetGrid, b,
                 KeysNeighbours(raster, offsetGrid, b, Head(st.queue), 1,
                                [st EXCEPT !.queue = Tail(@),
                                           !.componentSize = @ + 1]))

RECURSIVE KeysScanRow(_, _, _, _, _, _)
KeysScanRow(raster, offsetGrid, b, gy, gx, acc) ==
    LET spacing == raster.gridSpacing
        key == encodeKey(gx, gy)
        gridCenter == <<gx * spacing + offsetGrid[1], gy * spacing + offsetGrid[2]>>
    IN IF gx > b.maxX THEN acc
       ELSE IF key \in acc.visited
            THEN KeysScanRow(raster, offsetGrid, b, gy, gx + 1, acc)
       ELSE IF ~erodeGridCellLoop(raster, gridCenter)
            THEN KeysScanRow(raster, offsetGrid, b, gy, gx + 1,
                             [acc EXCEPT !.visited = @ \cup {key}])
       ELSE LET st == KeysBfs(raster, offsetGrid, b,
                         [queue |-> << <<gx, gy>> >>,
                          visited |-> acc.visited \cup {key},
                          componentSize |-> 0])
            IN KeysScanRow(raster, offsetGrid, b, gy, gx + 1,
                   [visited |-> st.visited,
                    bestCount |-> IF st.componentSize > acc.bestCount
                                  THEN st.componentSize ELSE acc.bestCount])

RECURSIVE KeysScan(_, _, _, _, _)
KeysScan(raster, offsetGrid, b, gy, acc) ==
    IF gy > b.maxY THEN acc
    ELSE KeysScan(raster, offsetGrid, b, gy + 1,
                  KeysScanRow(raster, offsetGrid, b, gy, b.minX, acc))

countLargestComponentWithOffsetKeys(raster, offsetGrid) ==
    LET gridSampleBounds ==
            computeGridSampleBoundsWithOffsetSlack(raster.mask, raster.gridSpacing, offsetGrid)
    IN KeysScan(raster, offsetGrid, gridSampleBounds, gridSampleBounds.minY,
                [visited |-> {}, bestCount |-> 0]).bestCount

NullRaster == [isNull |-> TRUE]

rasterizeRegion(rgn, g) ==
    IF rgn.isNull THEN NullRaster
    ELSE LET cellSize == g.spacing \div RASTER_RESOLUTION
             regionGrid == transformRegionToGrid(rgn, g)
             bounds == computeGridBoundsGrid(regionGrid)
             minMarginCells == Ceil(g.spacing \div 2, cellSize) + 2
             marginCells == Max(RASTER_MARGIN_CELLS, minMarginCells)
             minX == Floor(bounds.minX, cellSize) * cellSize - cellSize * marginCells
             minY == Floor(bounds.minY, cellSize) * cellSize - cellSize * marginCells
             maxX == Ceil(bounds.maxX, cellSize) * cellSize + cellSize * marginCells
             maxY == Ceil(bounds.maxY, cellSize) * cellSize + cellSize * marginCells
             width == Max(1, Ceil(maxX - minX, cellSize))
             height == Max(1, Ceil(maxY - minY, cellSize))
             mask0 == [data |-> [i \in 0..(width * height - 1) |-> 0],
                       width |-> width, height |-> height,
                       prefixSum |-> [i \in 0..((width + 1) * (height + 1) - 1) |-> 0],
                       cellSize |-> cellSize, originGrid |-> <<minX, minY>>]
             mask == buildPrefixSum(fillMaskWithCanvas(mask0, regionGrid))
             rasterResult == [isNull |-> FALSE, mask |-> mask, gridSpacing |-> g.spacing,
                              gridSampleBounds |-> computeGridSampleBounds(mask, g.spacing),
                              gridCellCount |-> 0, insideCells |-> {}]
             largest == computeLargestComponent(rasterResult)
         IN IF bounds.isNull THEN NullRaster
            ELSE [rasterResult EXCEPT !.gridCellCount = largest.count,
                                      !.insideCells = largest.insideCells]

(* The extent of the mask and the bounds test of erodeGridCell along one   *)
(* axis, for any raster resolution: the program's resolution is            *)
(* ProgramResolution, the rasters of the model have RASTER_RESOLUTION.     *)
ProgramResolution == 8

\* faulty variant: the padding is the fixed minimum only
marginCellsFixed(spacing, cellSize) == RASTER_MARGIN_CELLS

\* lines 32-33: marginCells
marginCellsFor(spacing, cellSize) ==
    Max(RASTER_MARGIN_CELLS, Ceil(spacing \div 2, cellSize) + 2)

\* lines 24, 35-41: origin, width and cell size of the mask for the bounds
\* lo..hi of the region in grid coordinates
maskExtent(lo, hi, spacing, resolution) ==
    LET cellSize == spacing \div resolution
        marginCells == marginCellsFor(spacing, cellSize)
        min == Floor(lo, cellSize) * cellSize - cellSize * marginCells
        max == Ceil(hi, cellSize) * cellSize + cellSize * marginCells
    IN [origin |-> min, width |-> Max(1, Ceil(max - min, cellSize)), cellSize |-> cellSize]

\* lines 281-293: the raster cells start..end of the footprint of the grid
\* cell centred at point are cells of the mask
footprintInMask(extent, spacing, point) ==
    LET halfEdge == spacing \div 2
        start == Floor(point - halfEdge - extent.origin + eps, extent.cellSize)
        end == Ceil(point + halfEdge - extent.origin - eps, extent.cellSize) - 1
    IN ~(start < 0 \/ end >= extent.width)

--------------------------------------------------------------------------
(* geometry.ts and gridAlignment.ts.  toRad and toDeg only change the unit *)
(* of an angle.  rotate is exact for angle 0; for the                      *)
(* other candidate angles the quarter turn stands for the sine and cosine, *)
(* as `turned` does for the rings, so that a turned offset stays on the    *)
(* corners of raster cells.                                                *)

rotate(vec, angle) ==
    IF angle = 0 THEN vec ELSE <<-vec[2], vec[1]>>

\* the % of JavaScript: the sign of the result is the sign of the dividend
JsMod(a, n) == IF a >= 0 THEN a % n ELSE -((-a) % n)

(* Degrees that are not whole are fractions [n, d] in lowest terms with    *)
(* d > 0, so that two fractions are the same number exactly when they are *)
(* equal.                                                                  *)
RECURSIVE Gcd(_, _)
Gcd(a, b) == IF b = 0 THEN a ELSE Gcd(b, a % b)

Abs(a) == IF a < 0 THEN -a ELSE a

Frac(n, d) == [n |-> n \div Gcd(Abs(n), d), d |-> d \div Gcd(Abs(n), d)]

FracLess(f, g) == f.n * g.d < g.n * f.d

\* ((deg % 90) + 90) % 90 on fractions, with the % of JavaScript
normalizeDeg(f) ==
    LET once == Frac(JsMod(f.n, 90 * f.d) + 90 * f.d, f.d)
    IN Frac(JsMod(once.n, 90 * once.d), once.d)

\* the arctangent of num / den in thousandths of a degree (rounded), for
\* 0 <= num <= den: the directions of the vectors between lattice points
\* that are at most five steps apart
AtanMilli(num, den) ==
    LET g == Gcd(num, den)
        r == <<num \div g, den \div g>>
    IN CASE r = <<0, 1>> -> 0
         [] r = <<1, 5>> -> 11310
         [] r = <<1, 4>> -> 14036
         [] r = <<1, 3>> -> 18435
         [] r = <<2, 5>> -> 21801
         [] r = <<1, 2>> -> 26565
         [] r = <<3, 5>> -> 30964
         [] r = <<2, 3>> -> 33690
         [] r = <<3, 4>> -> 36870
         [] r = <<4, 5>> -> 38660
         [] r = <<1, 1>> -> 45000

\* toDeg(Math.atan2(dy, dx)), a fraction in (-180, 180]; not both are zero
Atan2Deg(dy, dx) ==
    LET ay == Abs(dy)
        ax == Abs(dx)
        acute == IF ay <= ax THEN AtanMilli(ay, ax) ELSE 90000 - AtanMilli(ax, ay)
        upper == IF dx >= 0 THEN acute ELSE 180000 - acute
    IN Frac(IF dy >= 0 THEN upper ELSE -upper, 1000)

\* addAngle: the bin (a whole number of degrees) of an edge direction
addAngle(angleDeg) ==
    LET turned == normalizeDeg(angleDeg)
        deg == IF FracLess(Frac(899999, 10000), turned) THEN Frac(899999, 10000) ELSE turned
    IN Floor(deg.n, deg.d * ANGLE_BIN_RESOLUTION) * ANGLE_BIN_RESOLUTION

\* the vectors of the edges of all rings, the last point joined to the first
EdgeVectors(polys) ==
    UNION {UNION {{<<polys[p][r][(i % Len(polys[p][r])) + 1][1] - polys[p][r][i][1],
                     polys[p][r][(i % Len(polys[p][r])) + 1][2] - polys[p][r][i][2]>> :
                      i \in 1..Len(polys[p][r])} :
                   r \in 1..Len(polys[p])} :
           p \in 1..Len(polys)}

\* the set of occupied bins (the keys of the Map)
computeEdgeHistogram(polys) ==
    {addAngle(Atan2Deg(e[2], e[1])) :
       e \in {d \in EdgeVectors(polys) : ~(d[1] = 0 /\ d[2] = 0)}}

SortedSeq(S) ==
    [i \in 1..Cardinality(S) |-> CHOOSE x \in S : Cardinality({y \in S : y < x}) = i - 1]

\* Array.from(new Set(...)).sort((a, b) => a - b) for fractions
SortedFracs(S) ==
    [i \in 1..Cardinality(S) |->
       CHOOSE x \in S : Cardinality({y \in S : FracLess(y, x)}) = i - 1]

\* faulty variant: only the two ends of a gap are put into `filled`
addSegmentEndsOnly(start, end, coarseStep) ==
    {Frac(start, 1), Frac(end, 1)}

\* addSegment: the angles put into `filled` for one gap between occupied
\* bins, start + (span / needed) * i
addSegment(start, end, coarseStep) ==
    LET span == end - start
        needed == Max(1, Ceil(span, coarseStep))
    IN {Frac(start * needed + span * i, needed) : i \in 0..needed}

\* faulty variant: the filled angles are not brought back into [0, 90)
uniqueNotNormalized(occupiedBins, coarseStep) ==
    LET occupied == SortedSeq(occupiedBins)
        n == Len(occupied)
    IN SortedFracs(UNION {addSegment(occupied[i],
                                     IF i = n THEN occupied[1] + 90 ELSE occupied[i + 1],
                                     coarseStep) :
                            i \in 1..n})

\* lines 150-173: `unique`, the candidates in degrees for the occupied bins
unique(occupiedBins, coarseStep) ==
    LET occupied == SortedSeq(occupiedBins)
        n == Len(occupied)
        filled == UNION {addSegment(occupied[i],
                                    IF i = n THEN occupied[1] + 90 ELSE occupied[i + 1],
                                    coarseStep) :
                           i \in 1..n}
        normalized == {normalizeDeg(deg) : deg \in filled}
    IN SortedFracs(normalized)

\* the candidates in degrees: [0] without a region and without an edge
candidateDegrees(rgn, coarseStep) ==
    IF rgn.isNull THEN <<Frac(0, 1)>>
    ELSE IF computeEdgeHistogram(rgn.polygons) = {} THEN <<Frac(0, 1)>>
    ELSE unique(computeEdgeHistogram(rgn.polygons), coarseStep)

RECURSIVE LcmUpTo(_)
LcmUpTo(k) == IF k <= 1 THEN 1 ELSE (LcmUpTo(k - 1) * k) \div Gcd(LcmUpTo(k - 1), k)

\* The angles of the search are whole numbers of the unit 1 / AngleUnit
\* degree, in which every candidate (a bin plus i * span / needed with
\* needed <= ceil(90 / step)) is whole; the search only compares, stores
\* and passes on its angles, and rotate tells 0 from the other angles.
AngleUnit == LcmUpTo(Ceil(90, ROTATION_STEP_DEGREES))

\* toRad: a change of unit
toRad(deg) == (deg.n * AngleUnit) \div deg.d

buildCandidateAngles(rgn) ==
    LET degrees == candidateDegrees(rgn, ROTATION_STEP_DEGREES)
    IN [i \in 1..Len(degrees) |-> toRad(degrees[i])]

\* faulty variant: the signal is never looked at
throwIfAbortedNever(aborted) == FALSE

\* throwIfAborted: TRUE when it raises the AbortError
throwIfAborted(aborted) == aborted

NoBest == [isNull |-> TRUE]

\* faulty variant: only the first evaluation is ever kept
bestFirstOnly(best, count, angle, offsetGrid, g) ==
    IF best.isNull
    THEN [isNull |-> FALSE, angle |-> angle,
          origin |-> <<g.origin[1] + rotate(offsetGrid, angle)[1],
                       g.origin[2] + rotate(offsetGrid, angle)[2]>>,
          cellCount |-> count]
    ELSE best

\* lines 102-113: the best so far after one evaluation; g is the caller's pose
updateBest(best, count, angle, offsetGrid, g) ==
    IF best.isNull \/ count > best.cellCount
    THEN [isNull |-> FALSE, angle |-> angle,
          origin |-> <<g.origin[1] + rotate(offsetGrid, angle)[1],
                       g.origin[2] + rotate(offsetGrid, angle)[2]>>,
          cellCount |-> count]
    ELSE best

\* faulty variant: the promise of the yield is never resolved
stayYielded(s) == [s EXCEPT !.pc = "yielded"]

\* the loop increments after an evaluation: next ox, next oy, next angle
advance(s) ==
    IF s.ox + 1 < RASTER_RESOLUTION THEN [s EXCEPT !.pc = "offset", !.ox = s.ox + 1]
    ELSE IF s.oy + 1 < RASTER_RESOLUTION THEN [s EXCEPT !.pc = "offset", !.ox = 0, !.oy = s.oy + 1]
    ELSE [s EXCEPT !.pc = "angle", !.ai = s.ai + 1]

abort(s) == [s EXCEPT !.pc = "aborted", !.outcome = "AbortError"]

\* faulty variant: a resumed search goes on without looking at the signal
resumeUnchecked(s) == advance(s)

\* faulty variant: a resumed search leaves the offsets of its angle and goes
\* on with the next angle
resumeNextAngle(s) ==
    IF throwIfAborted(s.aborted) THEN abort(s)
    ELSE [s EXCEPT !.pc = "angle", !.ai = s.ai + 1]

\* maybeYield after the await: the check, then on with the loops
resume(s) == IF throwIfAborted(s.aborted) THEN abort(s) ELSE advance(s)

\* faulty variant: the rings are overwritten with their grid coordinates
regionTransformedInPlace(rgn, g) ==
    [rgn EXCEPT !.polygons = transformRegionToGrid(rgn, g)]

\* what rasterizeRegion leaves in the region it was given: transformRegionToGrid
\* maps the rings into new arrays
regionAfterRasterize(rgn, g) == rgn

\* the locals of a call that has not begun
IdleSearch ==
    [pc |-> "idle", outcome |-> "pending", aborted |-> FALSE, settled |-> FALSE,
     committed |-> FALSE, logged |-> FALSE,
     region |-> NullRegion, candidateAngles |-> <<>>, offsetStep |-> 0, ai |-> 0,
     baseRaster |-> NullRaster, ox |-> 0, oy |-> 0, best |-> NoBest,
     samples |-> 0, orientations |-> 0,
     callPose |-> [origin |-> <<0, 0>>, angle |-> 0, spacing |-> 0],
     evals |-> <<>>, rasterLog |-> <<>>, hasYielded |-> FALSE]

\* lines 51-79: the call up to the angle loop.  callPose, evals, rasterLog
\* and hasYielded record the history of the call for the properties.
startSearch(rgn, g, aborted) ==
    [IdleSearch EXCEPT
       !.pc = IF rgn.isNull THEN "returned" ELSE "angle",
       !.outcome = IF rgn.isNull THEN "null" ELSE "pending",
       !.aborted = aborted, !.region = rgn,
       !.candidateAngles = buildCandidateAngles(rgn),
       !.offsetStep = g.spacing \div RASTER_RESOLUTION,
       !.ai = 1, !.callPose = g]

\* one pass through the head of the angle loop (lines 81-94)
angleIteration(s, g) ==
    IF throwIfAborted(s.aborted) THEN abort(s)
    ELSE LET angle == s.candidateAngles[s.ai]
             baseGrid == [origin |-> g.origin, angle |-> angle, spacing |-> g.spacing]
             baseRaster == rasterizeRegion(s.region, baseGrid)
             logged == [s EXCEPT !.rasterLog = Append(s.rasterLog,
                                    [baseGrid |-> baseGrid, raster |-> baseRaster])]
         IN IF baseRaster.isNull
            THEN [logged EXCEPT !.ai = s.ai + 1]
            ELSE [logged EXCEPT !.pc = "offset", !.baseRaster = baseRaster,
                                !.orientations = s.orientations + 1, !.ox = 0, !.oy = 0]

\* one evaluation (lines 97-113) and the count of maybeYield
offsetIteration(s, g) ==
    IF throwIfAborted(s.aborted) THEN abort(s)
    ELSE LET angle == s.candidateAngles[s.ai]
             offsetGrid == <<s.ox * s.offsetStep, s.oy * s.offsetStep>>
             count == countLargestComponentWithOffset(s.baseRaster, offsetGrid)
         IN [s EXCEPT !.best = updateBest(s.best, count, angle, offsetGrid, g),
                      !.samples = s.samples + 1,
                      !.evals = Append(s.evals, [angle |-> angle, ox |-> s.ox, oy |-> s.oy,
                                                 offsetGrid |-> offsetGrid, count |-> count])]

(* The loops of lines 81-117 when maybeYield never finds the budget spent:  *)
(* the call runs from s to its end without an await.                       *)
RECURSIVE NeverYielding(_, _)
NeverYielding(s, g) ==
    IF s.pc = "angle" /\ s.ai <= Len(s.candidateAngles)
    THEN NeverYielding(angleIteration(s, g), g)
    ELSE IF s.pc = "offset"
    THEN LET after == offsetIteration(s, g)
         IN NeverYielding(IF after.pc = "aborted" THEN after ELSE advance(after), g)
    ELSE s

--------------------------------------------------------------------------
(* main.ts: the application state *)

VARIABLES region, grid, raster, rasterDirty, cellCountLabel,
          autoAlignEnabled, alignAbortController, aligning, alignStats,
          searches, running, waiting, frameQueue

vars == <<region, grid, raster, rasterDirty, cellCountLabel,
          autoAlignEnabled, alignAbortController, aligning, alignStats,
          searches, running, waiting, frameQueue>>

rasterVars == <<raster, rasterDirty, cellCountLabel>>
toolbarVars == <<autoAlignEnabled, alignAbortController, aligning, alignStats>>

(* The calls of findBestGridAlignmentAsync, one controller each.  running  *)
(* is the call that holds the thread, 0 when the event loop is free: a     *)
(* call runs on from await to await unless it waits for an animation       *)
(* frame, and no handler runs in between.  waiting holds the calls that    *)
(* have asked for the next animation frame, in the order of their          *)
(* requests; frameQueue those the frame under way has still to resume.     *)
MaxSearches == 2
SearchIds == 1..MaxSearches

\* the event loop takes the next event or frame
Free == running = 0 /\ frameQueue = <<>>

(* update(): one animation frame *)
Update ==
    /\ Free
    /\ rasterDirty
    /\ raster' = rasterizeRegion(region, grid)
    /\ cellCountLabel' = IF raster'.isNull THEN 0 ELSE raster'.gridCellCount
    /\ rasterDirty' = FALSE
    /\ region' = regionAfterRasterize(region, grid)
    /\ UNCHANGED <<grid, toolbarVars, searches, running, waiting, frameQueue>>

(* The regions of the model: no region, regions without a point, one      *)
(* rectangle, and two rectangles, one anchored at each end of the world's  *)
(* diagonal.  The pose origins shift the grid by whole raster cells.       *)
Region(polys) == [isNull |-> FALSE, polygons |-> polys, turned |-> <<>>]

EmptyRegions == {Region(<<>>), Region(<< <<>> >>), Region(<< << <<>> >> >>)}

LowRings == {Rect(0, 0, x1, y1) : x1 \in 1..MaxCoord, y1 \in 1..MaxCoord}
HighRings == {Rect(x0, y0, MaxCoord, MaxCoord) : x0 \in 0..(MaxCoord - 1), y0 \in 0..(MaxCoord - 1)}

Regions1 == {Region(<< <<r>> >>) : r \in ProperRings}
Regions2 == {Region(<< <<r1>>, <<r2>> >>) : r1 \in LowRings, r2 \in HighRings}

Origins == {<<o * UnitsPerCell, o * UnitsPerCell>> : o \in 0..(RASTER_RESOLUTION - 1)}

InitRaster ==
    /\ region \in {NullRegion} \cup EmptyRegions \cup Regions1 \cup Regions2
    /\ grid \in {[origin |-> o, angle |-> 0, spacing |-> Spacing] : o \in Origins}
    /\ raster = NullRaster
    /\ rasterDirty = TRUE
    /\ cellCountLabel = 0
    /\ autoAlignEnabled = FALSE
    /\ alignAbortController = 0
    /\ aligning = FALSE
    /\ alignStats = ""
    /\ searches = [s \in SearchIds |-> IdleSearch]
    /\ running = 0
    /\ waiting = <<>>
    /\ frameQueue = <<>>

SpecRaster == InitRaster /\ [][Update]_vars

(* Square regions whose side is a whole number of grid cells.  Block(a, b, *)
(* n) has its lower left corner a and b raster cells from the world's      *)
(* origin and a side of n grid cells; with the pose origins of Origins the *)
(* squares lie in every position relative to the cells of the grid that    *)
(* keeps their corners on corners of raster cells.  The pairs are two      *)
(* blocks side by side with one empty cell between, corner to corner,      *)
(* diagonal with an empty cell between, and edge to edge.                  *)
\* largest side of a block, in grid cells
MaxBlock == 3

Block(a, b, n) == Rect(a, b, a + n * RASTER_RESOLUTION, b + n * RASTER_RESOLUTION)

BlockShifts(n) == {<<n + 1, 0>>, <<0, n + 1>>, <<n, n>>, <<n + 1, n + 1>>, <<n, 0>>}

BlockRegions1 ==
    {Region(<< <<Block(a, b, n)>> >>) :
       a \in 0..RASTER_RESOLUTION, b \in 0..RASTER_RESOLUTION, n \in 1..MaxBlock}

BlockRegions2 ==
    UNION {{Region(<< <<Block(a, a, n)>>,
                      <<Block(a + d[1] * RASTER_RESOLUTION, a + d[2] * RASTER_RESOLUTION, n)>> >>) :
              d \in BlockShifts(n)} :
            a \in 0..(RASTER_RESOLUTION - 1), n \in 1..MaxBlock}

\* the square ring (0,0), (10,0), (10,10), (0,10) at spacing 2: five spacings a side
ExampleSquare == Region(<< <<Rect(0, 0, 5 * RASTER_RESOLUTION, 5 * RASTER_RESOLUTION)>> >>)

InitBlocks ==
    /\ region \in BlockRegions1 \cup BlockRegions2 \cup {ExampleSquare}
    /\ grid \in {[origin |-> o, angle |-> 0, spacing |-> Spacing] : o \in Origins}
    /\ raster = NullRaster
    /\ rasterDirty = TRUE
    /\ cellCountLabel = 0
    /\ autoAlignEnabled = FALSE
    /\ alignAbortController = 0
    /\ aligning = FALSE
    /\ alignStats = ""
    /\ searches = [s \in SearchIds |-> IdleSearch]
    /\ running = 0
    /\ waiting = <<>>
    /\ frameQueue = <<>>

SpecBlocks == InitBlocks /\ [][Update]_vars

(* Regions without area: one point, two points or a flattened rectangle   *)
(* on a line parallel to an axis, alone or beside an empty ring; with      *)
(* them the regions without a point and the rectangles from the world's    *)
(* origin.                                                                 *)
Corners == {<<x * UnitsPerCell, y * UnitsPerCell>> : x \in 0..MaxCoord, y \in 0..MaxCoord}

FlatRings ==
    {<<q>> : q \in Corners}
      \cup {<<e[1], e[2]>> : e \in {d \in Corners \X Corners : d[1][1] = d[2][1] \/ d[1][2] = d[2][2]}}
      \cup {Rect(x, 0, x, y) : x \in 0..MaxCoord, y \in 1..MaxCoord}
      \cup {Rect(0, y, x, y) : x \in 1..MaxCoord, y \in 0..MaxCoord}

FlatRegions ==
    {Region(<< <<r>> >>) : r \in FlatRings}
      \cup {Region(<< << <<>> >>, <<r>> >>) : r \in {<<q>> : q \in Corners}}

InitFlat ==
    /\ region \in {NullRegion} \cup EmptyRegions \cup FlatRegions
                   \cup {Region(<< <<r>> >>) : r \in LowRings}
    /\ grid \in {[origin |-> o, angle |-> 0, spacing |-> Spacing] : o \in Origins}
    /\ raster = NullRaster
    /\ rasterDirty = TRUE
    /\ cellCountLabel = 0
    /\ autoAlignEnabled = FALSE
    /\ alignAbortController = 0
    /\ aligning = FALSE
    /\ alignStats = ""
    /\ searches = [s \in SearchIds |-> IdleSearch]
    /\ running = 0
    /\ waiting = <<>>
    /\ frameQueue = <<>>

SpecFlat == InitFlat /\ [][Update]_vars

--------------------------------------------------------------------------
(* gridAlignment.ts: one call of findBestGridAlignmentAsync and its caller *)

\* the candidate angles of the model's regions other than 0
TurnAngles == Range(buildCandidateAngles(Region(<< <<Rect(0, 0, 1, 1)>> >>))) \ {0}

RegionTurned(polys, turned) == [isNull |-> FALSE, polygons |-> polys, turned |-> turned]

SearchPolys ==
    { << <<Rect(0, 0, MaxCoord, MaxCoord)>> >>,
      << <<Rect(0, 0, MaxCoord - 1, MaxCoord)>> >>,
      << <<Rect(0, 0, 2, 2)>>, <<Rect(2, 2, MaxCoord, MaxCoord)>> >> }

SearchRegions ==
    {NullRegion, Region(<<>>)}
      \cup {RegionTurned(p, [a \in TurnAngles |-> t]) : p \in SearchPolys, t \in SearchPolys}

InitSearch ==
    /\ region \in SearchRegions
    /\ grid \in {[origin |-> o, angle |-> 0, spacing |-> Spacing] : o \in Origins}
    /\ raster = NullRaster
    /\ rasterDirty = TRUE
    /\ cellCountLabel = 0
    /\ autoAlignEnabled = FALSE
    /\ alignAbortController = 0
    /\ aligning = FALSE
    /\ alignStats = ""
    /\ searches = [s \in SearchIds |-> IdleSearch]
    /\ running = 0
    /\ waiting = <<>>
    /\ frameQueue = <<>>

\* the caller calls findBestGridAlignmentAsync(region, grid, {signal})
Call ==
    /\ Free
    /\ searches[1].pc = "idle"
    /\ searches' = [searches EXCEPT ![1] = startSearch(region, grid, searches[1].aborted)]
    /\ running' = 1
    /\ UNCHANGED <<region, grid, rasterVars, toolbarVars, waiting, frameQueue>>

\* the head of the angle loop: the check, the copy of the pose, the raster
AngleIter(s) ==
    /\ running = s
    /\ searches[s].pc = "angle"
    /\ searches[s].ai <= Len(searches[s].candidateAngles)
    /\ searches' = [searches EXCEPT ![s] = angleIteration(searches[s], grid)]
    /\ region' = IF throwIfAborted(searches[s].aborted) \/ searches[s].region # region
                 THEN region
                 ELSE regionAfterRasterize(region,
                        [origin |-> grid.origin,
                         angle |-> searches[s].candidateAngles[searches[s].ai],
                         spacing |-> grid.spacing])
    /\ UNCHANGED <<grid, rasterVars, toolbarVars, running, waiting, frameQueue>>

\* one offset: the check, the count, the best so far, then maybeYield, which
\* waits for an animation frame when YIELD_BUDGET_MS have gone by
OffsetIter(s) ==
    /\ running = s
    /\ searches[s].pc = "offset"
    /\ \E budgetSpent \in BOOLEAN :
         LET after == offsetIteration(searches[s], grid)
         IN IF after.pc = "aborted"
            THEN /\ searches' = [searches EXCEPT ![s] = after]
                 /\ running' = s
                 /\ waiting' = waiting
            ELSE IF budgetSpent
            THEN /\ searches' = [searches EXCEPT ![s] = [after EXCEPT !.pc = "yielded",
                                                                      !.hasYielded = TRUE]]
                 /\ running' = 0
                 /\ waiting' = Append(waiting, s)
            ELSE /\ searches' = [searches EXCEPT ![s] = advance(after)]
                 /\ running' = s
                 /\ waiting' = waiting
    /\ UNCHANGED <<region, grid, rasterVars, toolbarVars, frameQueue>>

\* an animation frame begins: the callbacks requested so far will run
BeginFrame ==
    /\ Free
    /\ waiting # <<>>
    /\ frameQueue' = waiting
    /\ waiting' = <<>>
    /\ UNCHANGED <<region, grid, rasterVars, toolbarVars, searches, running>>

\* the frame resumes the call whose request is the oldest
Resume(s) ==
    /\ running = 0
    /\ frameQueue # <<>>
    /\ Head(frameQueue) = s
    /\ searches[s].pc = "yielded"
    /\ searches' = [searches EXCEPT ![s] = resume(searches[s])]
    /\ running' = s
    /\ frameQueue' = Tail(frameQueue)
    /\ UNCHANGED <<region, grid, rasterVars, toolbarVars, waiting>>

\* the angle loop is through: return best
Return(s) ==
    /\ running = s
    /\ searches[s].pc = "angle"
    /\ searches[s].ai > Len(searches[s].candidateAngles)
    /\ searches' = [searches EXCEPT ![s] =
                      [@ EXCEPT !.pc = "returned",
                                !.outcome = IF searches[s].best.isNull THEN "null"
                                            ELSE "result"]]
    /\ UNCHANGED <<region, grid, rasterVars, toolbarVars, running, waiting, frameQueue>>

\* the promise settles for a caller that only awaits it
Settle(s) ==
    /\ running = s
    /\ searches[s].pc \in {"returned", "aborted"}
    /\ searches' = [searches EXCEPT ![s] = [@ EXCEPT !.settled = TRUE]]
    /\ running' = 0
    /\ UNCHANGED <<region, grid, rasterVars, toolbarVars, waiting, frameQueue>>

\* the caller aborts the controller of the signal, before the call or
\* while the call waits for a frame
CallerAborts ==
    /\ Free
    /\ searches[1].pc \in {"idle", "yielded"}
    /\ ~searches[1].aborted
    /\ searches' = [searches EXCEPT ![1] = [@ EXCEPT !.aborted = TRUE]]
    /\ UNCHANGED <<region, grid, rasterVars, toolbarVars, running, waiting, frameQueue>>

\* interactions.ts onPointerMove, "grid-move": the caller writes the origin
\* of its pose while the call waits for a frame
CallerMovesOrigin ==
    /\ Free
    /\ searches[1].pc = "yielded"
    /\ \E o \in Origins \ {grid.origin} : grid' = [grid EXCEPT !.origin = o]
    /\ UNCHANGED <<region, rasterVars, toolbarVars, searches, running, waiting, frameQueue>>

\* interactions.ts onPointerMove, "grid-rotate": the caller writes the angle
CallerTurnsGrid ==
    /\ Free
    /\ searches[1].pc = "yielded"
    /\ \E a \in ({0} \cup TurnAngles) \ {grid.angle} : grid' = [grid EXCEPT !.angle = a]
    /\ UNCHANGED <<region, rasterVars, toolbarVars, searches, running, waiting, frameQueue>>

NextSearch ==
    \/ Call
    \/ BeginFrame
    \/ \E s \in SearchIds : AngleIter(s)
    \/ \E s \in SearchIds : OffsetIter(s)
    \/ \E s \in SearchIds : Resume(s)
    \/ \E s \in SearchIds : Return(s)
    \/ \E s \in SearchIds : Settle(s)
    \/ CallerAborts
    \/ CallerMovesOrigin
    \/ CallerTurnsGrid

SpecSearch == InitSearch /\ [][NextSearch]_vars

\* a call holds the thread in the middle of its loops
Computing ==
    \E s \in SearchIds :
      /\ running = s
      /\ \/ searches[s].pc = "offset"
         \/ searches[s].pc = "angle" /\ searches[s].ai <= Len(searches[s].candidateAngles)

(* The host runs animation frames, resumes in each the calls that wait for *)
(* it and lets a call that                                                 *)
(* is through return and settle; a call that holds the thread in its loops *)
(* runs on.  The second condition is weak fairness of the loop steps,      *)
(* written out with Computing, the states in which one of them can be      *)
(* taken.                                                                  *)
SpecSearchFair ==
    /\ SpecSearch
    /\ WF_vars(BeginFrame \/ \E s \in SearchIds : Resume(s) \/ Return(s) \/ Settle(s))
    /\ ([]<>(~Computing) \/ []<><<\E s \in SearchIds : AngleIter(s) \/ OffsetIter(s)>>_vars)

(* The search with a caller that leaves its pose and its signal alone      *)
(* while the call is under way.                                            *)
NextSearchAlone ==
    \/ Call
    \/ BeginFrame
    \/ \E s \in SearchIds : AngleIter(s)
    \/ \E s \in SearchIds : OffsetIter(s)
    \/ \E s \in SearchIds : Resume(s)
    \/ \E s \in SearchIds : Return(s)
    \/ \E s \in SearchIds : Settle(s)

SpecSearchAlone == InitSearch /\ [][NextSearchAlone]_vars

(* A call for a pose the user has turned along an edge of the region.  The *)
(* region is a rectangle with sides along (2,1) and (-1,2); the axis       *)
(* handle dragged along the first side gives the angle atan2(1, 2), 26.565 *)
(* degrees, PoseAlongEdge in the unit of the angles.  The images of the    *)
(* region at that angle and at the angles of the search are inputs.        *)
EdgeRing ==
    << <<0, 0>>, <<2 * UnitsPerCell, UnitsPerCell>>, <<UnitsPerCell, 3 * UnitsPerCell>>,
       <<-UnitsPerCell, 2 * UnitsPerCell>> >>

PoseAlongEdge == (Atan2Deg(1, 2).n * AngleUnit + Atan2Deg(1, 2).d \div 2) \div Atan2Deg(1, 2).d

EdgeRegions ==
    {RegionTurned(<< <<EdgeRing>> >>,
                  [a \in Range(buildCandidateAngles(Region(<< <<EdgeRing>> >>)))
                           \cup {PoseAlongEdge} |->
                     IF a = PoseAlongEdge THEN p ELSE t]) :
       p \in SearchPolys, t \in SearchPolys}

InitEdge ==
    /\ region \in EdgeRegions
    /\ grid \in {[origin |-> o, angle |-> PoseAlongEdge, spacing |-> Spacing] : o \in Origins}
    /\ raster = NullRaster
    /\ rasterDirty = TRUE
    /\ cellCountLabel = 0
    /\ autoAlignEnabled = FALSE
    /\ alignAbortController = 0
    /\ aligning = FALSE
    /\ alignStats = ""
    /\ searches = [s \in SearchIds |-> IdleSearch]
    /\ running = 0
    /\ waiting = <<>>
    /\ frameQueue = <<>>

SpecEdge == InitEdge /\ [][NextSearchAlone]_vars

(* The candidate angles of regions with slanted edges: triangles with a    *)
(* corner at the world origin and the other two on the lattice (two or     *)
(* three corners may coincide, which gives edges of length zero).  The     *)
(* search is called and goes no further: a raster of a slanted edge is     *)
(* outside what fillMaskWithCanvas models.                                 *)
Triangles == {<<<<0, 0>>, q, r>> : q \in Corners, r \in Corners}

AngleRegions ==
    {NullRegion} \cup EmptyRegions
      \cup {Region(<< <<t>> >>) : t \in Triangles}
      \cup {Region(<< <<t>>, <<Rect(0, 0, 1, 1)>> >>) :
              t \in {u \in Triangles : u[2][2] = 0 /\ u[3][1] = 0}}

InitAngles ==
    /\ region \in AngleRegions
    /\ grid = [origin |-> <<0, 0>>, angle |-> 0, spacing |-> Spacing]
    /\ raster = NullRaster
    /\ rasterDirty = TRUE
    /\ cellCountLabel = 0
    /\ autoAlignEnabled = FALSE
    /\ alignAbortController = 0
    /\ aligning = FALSE
    /\ alignStats = ""
    /\ searches = [s \in SearchIds |-> IdleSearch]
    /\ running = 0
    /\ waiting = <<>>
    /\ frameQueue = <<>>

SpecAngles == InitAngles /\ [][Call]_vars

--------------------------------------------------------------------------
(* main.ts: auto-align.  The application starts without a running search;  *)
(* interactions.ts and the toolbar call the handlers below from events,    *)
(* which arrive only while no call holds the thread.                       *)

AppRegions ==
    {NullRegion,
     RegionTurned(<< <<Rect(0, 0, MaxCoord - 1, MaxCoord)>> >>,
                  [a \in TurnAngles |-> << <<Rect(0, 0, MaxCoord, MaxCoord)>> >>])}

InitApp ==
    /\ region \in AppRegions
    /\ grid = [origin |-> <<0, 0>>, angle |-> 0, spacing |-> Spacing]
    /\ raster = NullRaster
    /\ rasterDirty = TRUE
    /\ cellCountLabel = 0
    /\ autoAlignEnabled \in BOOLEAN
    /\ alignAbortController = 0
    /\ aligning = FALSE
    /\ alignStats = ""
    /\ searches = [s \in SearchIds |-> IdleSearch]
    /\ running = 0
    /\ waiting = <<>>
    /\ frameQueue = <<>>

\* faulty variant: the controller is dropped without abort()
cancelAlignmentNoAbort(ss, controller) == ss

\* cancelAlignment, on the signals: the controller in alignAbortController aborts
cancelAlignment(ss, controller) ==
    IF controller = 0 THEN ss ELSE [ss EXCEPT ![controller] = [@ EXCEPT !.aborted = TRUE]]

\* the controller a new search gets: the first that no search has used
NewController == SetMin({s \in SearchIds : searches[s].pc = "idle"})

\* autoAlignGrid with a region: cancel, new controller, toolbar, and the call
\* of findBestGridAlignmentAsync, which runs on to its first await
autoAlignGrid ==
    /\ \E s \in SearchIds : searches[s].pc = "idle"
    /\ searches' = [cancelAlignment(searches, alignAbortController) EXCEPT
                      ![NewController] = startSearch(region, grid, FALSE)]
    /\ alignAbortController' = NewController
    /\ aligning' = TRUE
    /\ alignStats' = "Aligning..."
    /\ running' = NewController

\* triggerAutoAlign(), as interactions.ts calls it
TriggerAutoAlign ==
    /\ Free
    /\ autoAlignEnabled
    /\ ~region.isNull
    /\ autoAlignGrid
    /\ UNCHANGED <<region, grid, rasterVars, autoAlignEnabled, waiting, frameQueue>>

\* onToggleAutoAlign: the checkbox, which setAligning(true) disables
ToggleAutoAlign ==
    /\ Free
    /\ ~aligning
    /\ autoAlignEnabled' = ~autoAlignEnabled
    /\ IF ~autoAlignEnabled /\ ~region.isNull
       THEN autoAlignGrid
       ELSE UNCHANGED <<searches, alignAbortController, aligning, alignStats, running>>
    /\ UNCHANGED <<region, grid, rasterVars, waiting, frameQueue>>

\* cancelAlignment(), as interactions.ts calls it
CancelAlignment ==
    /\ Free
    /\ alignAbortController # 0
    /\ searches' = cancelAlignment(searches, alignAbortController)
    /\ alignAbortController' = 0
    /\ aligning' = FALSE
    /\ alignStats' = ""
    /\ UNCHANGED <<region, grid, rasterVars, autoAlignEnabled, running, waiting, frameQueue>>

\* clearRegion(): the Clear button
ClearRegion ==
    /\ Free
    /\ searches' = cancelAlignment(searches, alignAbortController)
    /\ alignAbortController' = 0
    /\ aligning' = FALSE
    /\ autoAlignEnabled' = FALSE
    /\ region' = NullRegion
    /\ rasterDirty' = TRUE
    /\ cellCountLabel' = 0
    /\ alignStats' = ""
    /\ UNCHANGED <<grid, raster, running, waiting, frameQueue>>

\* a call whose promise has settled: its locals are gone
settledSearch(c, committed) ==
    [IdleSearch EXCEPT !.pc = c.pc, !.outcome = c.outcome, !.aborted = c.aborted,
                       !.settled = TRUE, !.committed = committed]

\* the .then of autoAlignGrid: the result is written to the pose unless the
\* controller of this search has aborted
Then(s) ==
    /\ running = s
    /\ searches[s].pc = "returned"
    /\ ~searches[s].settled
    /\ running' = 0
    /\ IF searches[s].aborted
       THEN /\ searches' = [searches EXCEPT ![s] = settledSearch(@, FALSE)]
            /\ UNCHANGED <<grid, rasterDirty, alignAbortController, aligning, alignStats>>
       ELSE /\ alignAbortController' = 0
            /\ aligning' = FALSE
            /\ alignStats' = ""
            /\ IF searches[s].best.isNull
               THEN /\ searches' = [searches EXCEPT ![s] = settledSearch(@, FALSE)]
                    /\ UNCHANGED <<grid, rasterDirty>>
               ELSE /\ searches' = [searches EXCEPT ![s] = settledSearch(@, TRUE)]
                    /\ grid' = [grid EXCEPT !.origin = searches[s].best.origin,
                                            !.angle = searches[s].best.angle]
                    /\ rasterDirty' = TRUE
    /\ UNCHANGED <<region, raster, cellCountLabel, autoAlignEnabled, waiting, frameQueue>>

\* rasterizeRegion throws at the head of the angle loop (fillMaskWithCanvas
\* gets no 2d context): the promise rejects with that error
Fail(s) ==
    /\ running = s
    /\ searches[s].pc = "angle"
    /\ searches[s].ai <= Len(searches[s].candidateAngles)
    /\ ~throwIfAborted(searches[s].aborted)
    /\ searches' = [searches EXCEPT ![s] = [@ EXCEPT !.pc = "failed", !.outcome = "Error"]]
    /\ UNCHANGED <<region, grid, rasterVars, toolbarVars, running, waiting, frameQueue>>

\* faulty variant: the .catch does not look at the signal of its controller
CatchUnguarded(s) ==
    /\ running = s
    /\ searches[s].pc \in {"aborted", "failed"}
    /\ ~searches[s].settled
    /\ running' = 0
    /\ searches' = [searches EXCEPT ![s] = [settledSearch(@, FALSE) EXCEPT !.logged = TRUE]]
    /\ alignAbortController' = 0
    /\ aligning' = FALSE
    /\ alignStats' = ""
    /\ UNCHANGED <<region, grid, rasterVars, autoAlignEnabled, waiting, frameQueue>>

\* the .catch of autoAlignGrid; logged records the call of console.error
Catch(s) ==
    /\ running = s
    /\ searches[s].pc \in {"aborted", "failed"}
    /\ ~searches[s].settled
    /\ running' = 0
    /\ IF searches[s].aborted
       THEN /\ searches' = [searches EXCEPT ![s] = settledSearch(@, FALSE)]
            /\ UNCHANGED <<alignAbortController, aligning, alignStats>>
       ELSE /\ searches' = [searches EXCEPT ![s] =
                              [settledSearch(@, FALSE) EXCEPT !.logged = TRUE]]
            /\ alignAbortController' = 0
            /\ aligning' = FALSE
            /\ alignStats' = ""
    /\ UNCHANGED <<region, grid, rasterVars, autoAlignEnabled, waiting, frameQueue>>

NextApp ==
    \/ TriggerAutoAlign
    \/ ToggleAutoAlign
    \/ CancelAlignment
    \/ ClearRegion
    \/ Update
    \/ BeginFrame
    \/ \E s \in SearchIds : AngleIter(s)
    \/ \E s \in SearchIds : OffsetIter(s)
    \/ \E s \in SearchIds : Resume(s)
    \/ \E s \in SearchIds : Return(s)
    \/ \E s \in SearchIds : Then(s)
    \/ \E s \in SearchIds : Catch(s)

SpecApp == InitApp /\ [][NextApp]_vars

\* the application with searches that fail
NextFailures ==
    \/ TriggerAutoAlign
    \/ ToggleAutoAlign
    \/ CancelAlignment
    \/ ClearRegion
    \/ Update
    \/ BeginFrame
    \/ \E s \in SearchIds : AngleIter(s)
    \/ \E s \in SearchIds : OffsetIter(s)
    \/ \E s \in SearchIds : Resume(s)
    \/ \E s \in SearchIds : Return(s)
    \/ \E s \in SearchIds : Fail(s)
    \/ \E s \in SearchIds : Then(s)
    \/ \E s \in SearchIds : Catch(s)

SpecFailures == InitApp /\ [][NextFailures]_vars

(* The application with the edits of the user: interactions.ts changes the *)
(* pose while the origin handle or the axis handle is dragged and the      *)
(* region when a drawn polygon is closed.  Event handlers run when no call *)
(* holds the thread.  The search that is followed is the one the checkbox  *)
(* starts.                                                                 *)
EditRegions == AppRegions

\* faulty variant: the drag of the origin does not mark the raster dirty
OnPointerMoveDragOriginUnmarked ==
    /\ Free
    /\ \E o \in Origins \ {grid.origin} : grid' = [grid EXCEPT !.origin = o]
    /\ UNCHANGED <<region, rasterVars, toolbarVars, searches, running, waiting, frameQueue>>

\* onPointerMove, interactionMode = "dragging_grid_origin"
OnPointerMoveDragOrigin ==
    /\ Free
    /\ \E o \in Origins \ {grid.origin} : grid' = [grid EXCEPT !.origin = o]
    /\ rasterDirty' = TRUE
    /\ UNCHANGED <<region, raster, cellCountLabel, toolbarVars, searches, running,
                   waiting, frameQueue>>

\* onPointerMove, interactionMode = "rotating_grid"
OnPointerMoveRotate ==
    /\ Free
    /\ \E a \in ({0} \cup TurnAngles) \ {grid.angle} : grid' = [grid EXCEPT !.angle = a]
    /\ rasterDirty' = TRUE
    /\ UNCHANGED <<region, raster, cellCountLabel, toolbarVars, searches, running,
                   waiting, frameQueue>>

\* finalizePolygon with a polygon and a mode: the region becomes what
\* applyPolygonBoolean returns (none when nothing is left)
FinalizePolygon ==
    /\ Free
    /\ \E r \in EditRegions \ {region} : region' = r
    /\ rasterDirty' = TRUE
    /\ UNCHANGED <<grid, raster, cellCountLabel, toolbarVars, searches, running,
                   waiting, frameQueue>>

\* searches the user starts while the model follows the edits
MaxEditSearches == 1

\* onToggleAutoAlign, switched on for at most MaxEditSearches searches
ToggleAutoAlignBounded ==
    /\ autoAlignEnabled \/ searches[MaxEditSearches].pc = "idle"
    /\ ToggleAutoAlign

NextEdits ==
    \/ ToggleAutoAlignBounded
    \/ ClearRegion
    \/ OnPointerMoveDragOrigin
    \/ OnPointerMoveRotate
    \/ FinalizePolygon
    \/ Update
    \/ BeginFrame
    \/ \E s \in SearchIds : AngleIter(s)
    \/ \E s \in SearchIds : OffsetIter(s)
    \/ \E s \in SearchIds : Resume(s)
    \/ \E s \in SearchIds : Return(s)
    \/ \E s \in SearchIds : Then(s)
    \/ \E s \in SearchIds : Catch(s)

SpecEdits == InitApp /\ [][NextEdits]_vars

--------------------------------------------------------------------------
(* Reference notions the claims are stated with *)

Lattice(b) == (b.minX..b.maxX) \X (b.minY..b.maxY)

Center(r, c, offsetGrid) ==
    <<c[1] * r.gridSpacing + offsetGrid[1], c[2] * r.gridSpacing + offsetGrid[2]>>

Offsets == {<<ox * (Spacing \div RASTER_RESOLUTION), oy * (Spacing \div RASTER_RESOLUTION)>> :
              ox \in 0..(RASTER_RESOLUTION - 1), oy \in 0..(RASTER_RESOLUTION - 1)}

\* the lattice cells of bounds b that the classifier reports inside at an offset
InsideCellsAt(r, b, offsetGrid) ==
    {c \in Lattice(b) : erodeGridCell(r, Center(r, c, offsetGrid))}

Adjacent4(a, b) ==
    \/ a[1] = b[1] /\ (a[2] = b[2] + 1 \/ a[2] = b[2] - 1)
    \/ a[2] = b[2] /\ (a[1] = b[1] + 1 \/ a[1] = b[1] - 1)

RECURSIVE Grow(_, _)
Grow(S, I) ==
    LET T == S \cup {c \in I : \E d \in S : Adjacent4(c, d)}
    IN IF T = S THEN S ELSE Grow(T, I)

\* the 4-connected component of cell c within the cell set I
ComponentOf(c, I) == Grow({c}, I)

LargestSize(I) ==
    IF I = {} THEN 0 ELSE SetMax({Cardinality(ComponentOf(c, I)) : c \in I})

EncodeSet(S) == {encode(c[1], c[2]) : c \in S}

\* the raster cells (any indices) that overlap the spacing-by-spacing square at gridPoint
FootprintCells(r, gridPoint) ==
    LET m == r.mask
        half == r.gridSpacing \div 2
        reach == RASTER_RESOLUTION + 2
        lo(k) == gridPoint[k] - half
        hi(k) == gridPoint[k] + half
        over(i, k) == /\ m.originGrid[k] + i * m.cellSize < hi(k)
                      /\ m.originGrid[k] + (i + 1) * m.cellSize > lo(k)
        idx(k) == {i \in (Floor(lo(k) - m.originGrid[k], m.cellSize) - reach)
                         ..(Floor(hi(k) - m.originGrid[k], m.cellSize) + reach) : over(i, k)}
    IN idx(1) \X idx(2)

InMask(m, c) == c[1] >= 0 /\ c[1] < m.width /\ c[2] >= 0 /\ c[2] < m.height

FullyInside(r, gridPoint) ==
    \A c \in FootprintCells(r, gridPoint) :
        InMask(r.mask, c) /\ r.mask.data[c[2] * r.mask.width + c[1]] = 1

\* every grid point the flood fills may ask about, and one ring of cells beyond
ProbePoints(r) ==
    LET b == r.gridSampleBounds
    IN {Center(r, c, o) : c \in ((b.minX - 1)..(b.maxX + 1)) \X ((b.minY - 1)..(b.maxY + 1)),
                          o \in Offsets}

Occupied(m) == {i \in DOMAIN m.data : m.data[i] = 1}

--------------------------------------------------------------------------
C2_ErosionTest ==
    ~raster.isNull =>
        \A q \in ProbePoints(raster) : erodeGridCell(raster, q) <=> FullyInside(raster, q)

\* one raster with a cell inside, a footprint leaving the mask and a footprint
\* within the mask that is only partly occupied
C2_Witness ==
    /\ ~raster.isNull
    /\ \E q \in ProbePoints(raster) : erodeGridCell(raster, q)
    /\ \E q \in ProbePoints(raster) :
          \E c \in FootprintCells(raster, q) : ~InMask(raster.mask, c)
    /\ \E q \in ProbePoints(raster) :
          /\ \A c \in FootprintCells(raster, q) : InMask(raster.mask, c)
          /\ \E c \in FootprintCells(raster, q) :
                raster.mask.data[c[2] * raster.mask.width + c[1]] = 1
          /\ ~erodeGridCell(raster, q)

(* C3: after buildPrefixSum the entry at y * (width + 1) + x is the number *)
(* of occupied mask cells with row < y and column < x, for all             *)
(* 0 <= y <= height and 0 <= x <= width.                                   *)
C3_PrefixSum ==
    ~raster.isNull =>
        LET m == raster.mask
            occ == Occupied(m)
        IN \A y \in 0..m.height, x \in 0..m.width :
              m.prefixSum[y * (m.width + 1) + x]
                = Cardinality({i \in occ : i \div m.width < y /\ i % m.width < x})

\* a mask with occupied cells in more than one row and more than one column
C3_Witness ==
    /\ ~raster.isNull
    /\ \E i, j \in Occupied(raster.mask) :
          /\ i \div raster.mask.width # j \div raster.mask.width
          /\ i % raster.mask.width # j % raster.mask.width

--------------------------------------------------------------------------
(* The alignment search *)

Terminated(c) == c.pc \in {"returned", "aborted"}

\* the size of the largest 4-connected set of inside cells of raster r at an offset
RefCount(r, offsetGrid) ==
    LargestSize(InsideCellsAt(r, computeGridSampleBoundsWithOffset(r.mask, r.gridSpacing,
                                                                    offsetGrid), offsetGrid))

\* the rasterizations of call c that gave a raster, by their place in the log
Rastered(c) == {i \in 1..Len(c.rasterLog) : ~c.rasterLog[i].raster.isNull}

\* the (angle, offset) pairs call c has to evaluate
Pairs(c) == {<<i, ox, oy>> : i \in Rastered(c), ox \in 0..(RASTER_RESOLUTION - 1),
                             oy \in 0..(RASTER_RESOLUTION - 1)}

PairCount(c, p) ==
    RefCount(c.rasterLog[p[1]].raster, <<p[2] * c.offsetStep, p[3] * c.offsetStep>>)

(* C4: a search that returns has rasterized every candidate angle and      *)
(* evaluated every sub-cell offset of every angle that gave a raster       *)
(* exactly once; the cellCount it returns is the largest of the            *)
(* largest-component counts of all these (angle, offset) pairs, and the    *)
(* angle it returns is one where that count is reached.                    *)
C4_BestOfAllOffsets ==
    \A s \in SearchIds :
      LET c == searches[s]
      IN (c.pc = "returned" /\ ~c.region.isNull) =>
           /\ Len(c.rasterLog) = Len(c.candidateAngles)
           /\ \A i \in 1..Len(c.rasterLog) : c.rasterLog[i].baseGrid.angle = c.candidateAngles[i]
           /\ \A p \in Pairs(c) :
                Cardinality({k \in 1..Len(c.evals) :
                               /\ c.evals[k].angle = c.candidateAngles[p[1]]
                               /\ c.evals[k].ox = p[2]
                               /\ c.evals[k].oy = p[3]}) = 1
           /\ Len(c.evals) = Cardinality(Pairs(c))
           /\ IF Pairs(c) = {} THEN c.best.isNull
              ELSE /\ ~c.best.isNull
                   /\ c.best.cellCount = SetMax({PairCount(c, p) : p \in Pairs(c)})
                   /\ \E p \in Pairs(c) : /\ c.candidateAngles[p[1]] = c.best.angle
                                          /\ PairCount(c, p) = c.best.cellCount

\* a search returned a count that is larger than the first it evaluated
C4_Witness ==
    \E s \in SearchIds :
      /\ searches[s].pc = "returned"
      /\ ~searches[s].best.isNull
      /\ searches[s].best.cellCount > searches[s].evals[1].count
      /\ searches[s].best.angle # 0

(* C5: a search that waits for a frame with its signal aborted does, as    *)
(* its next step, end with the AbortError and evaluates no further offset; *)
(* and no search whose signal is aborted has returned a result.            *)
C5_ResumeChecksSignal ==
    /\ [][\A s \in SearchIds :
            (searches[s].pc = "yielded" /\ searches[s].aborted /\ searches'[s] # searches[s])
              => /\ searches'[s].pc = "aborted"
                 /\ searches'[s].outcome = "AbortError"
                 /\ searches'[s].evals = searches[s].evals]_vars
    /\ [](\A s \in SearchIds : searches[s].aborted => searches[s].outcome # "result")

\* a search was cancelled while it waited and has ended with the AbortError
C5_Witness ==
    \E s \in SearchIds :
      /\ searches[s].pc = "aborted"
      /\ searches[s].hasYielded
      /\ Len(searches[s].evals) >= 1

C7_Terminates ==
    /\ <>[](\A s \in SearchIds : searches[s].pc = "idle" \/ Terminated(searches[s]))
    /\ [][\A s \in SearchIds :
            (searches[s].pc = "yielded" /\ searches[s].aborted /\ searches'[s] # searches[s])
              => Terminated(searches'[s]) /\ searches'[s].samples = searches[s].samples]_vars
    /\ [](\A s \in SearchIds :
            (searches[s].pc = "returned" /\ ~searches[s].region.isNull)
              => searches[s].samples = Cardinality(Pairs(searches[s])))

\* a search that waited for a frame has returned
C7_Witness ==
    \E s \in SearchIds :
      /\ searches[s].pc = "returned"
      /\ searches[s].hasYielded
      /\ searches[s].settled

\* a search that was called and has neither returned nor ended with the AbortError
Outstanding(c) == c.pc # "idle" /\ ~Terminated(c)

(* C8: after every step at most one outstanding search has a signal that   *)
(* is not aborted; a step that starts a search leaves every search that    *)
(* was outstanding before with its signal aborted; and a step that writes  *)
(* the result of a search to the grid pose is taken only when every        *)
(* search started before it has ended.                                     *)
C8_OneSearchAtATime ==
    [][/\ Cardinality({s \in SearchIds : Outstanding(searches'[s]) /\ ~searches'[s].aborted}) <= 1
       /\ \A n \in SearchIds :
            (searches[n].pc = "idle" /\ searches'[n].pc # "idle")
              => \A s \in SearchIds \ {n} : Outstanding(searches[s]) => searches'[s].aborted
       /\ \A n \in SearchIds :
            (~searches[n].committed /\ searches'[n].committed)
              => \A s \in 1..(n - 1) : ~Outstanding(searches[s])]_vars

(* C8, amended: after every step at most one outstanding search has a      *)
(* signal that is not aborted; a step that starts a search leaves every    *)
(* search that was outstanding before with its signal aborted; and the     *)
(* result of a search whose signal is aborted is never written to the grid *)
(* pose, so that an older search never writes after a newer one has        *)
(* started.                                                                *)
C8_CancelledNeverCommits ==
    [][/\ Cardinality({s \in SearchIds : Outstanding(searches'[s]) /\ ~searches'[s].aborted}) <= 1
       /\ \A n \in SearchIds :
            (searches[n].pc = "idle" /\ searches'[n].pc # "idle")
              => \A s \in SearchIds \ {n} : Outstanding(searches[s]) => searches'[s].aborted
       /\ \A n \in SearchIds :
            (~searches[n].committed /\ searches'[n].committed)
              => /\ ~searches[n].aborted
                 /\ \A s \in SearchIds \ {n} : searches[s].pc # "idle" => searches[s].aborted
                                                   \/ searches[s].settled]_vars

\* a second search has written its result while the first, cancelled when
\* the second started, still waits for its frame
C8_Witness ==
    \E n \in SearchIds :
      /\ searches[n].committed
      /\ \E s \in 1..(n - 1) : searches[s].pc = "yielded" /\ searches[s].aborted

(* C9: every raster a search makes is made at the origin and spacing the   *)
(* caller's pose had when the search was called, and the origin it returns *)
(* is that origin moved by the turned offset of the best evaluation.       *)
C9_PoseSnapshot ==
    \A s \in SearchIds :
      LET c == searches[s]
      IN c.pc # "idle" =>
           /\ \A i \in 1..Len(c.rasterLog) :
                /\ c.rasterLog[i].baseGrid.origin = c.callPose.origin
                /\ c.rasterLog[i].baseGrid.spacing = c.callPose.spacing
           /\ ~c.best.isNull =>
                \E k \in 1..Len(c.evals) :
                  /\ c.evals[k].angle = c.best.angle
                  /\ c.evals[k].count = c.best.cellCount
                  /\ c.best.origin =
                       <<c.callPose.origin[1] + rotate(c.evals[k].offsetGrid, c.best.angle)[1],
                         c.callPose.origin[2] + rotate(c.evals[k].offsetGrid, c.best.angle)[2]>>

(* C10: no step of a search, the rasterizations it makes included, changes *)
(* the region or the pose of the caller, whether the search goes on,       *)
(* returns or ends with the AbortError.                                    *)
C10_InputsUntouched ==
    [][(running # 0 \/ running' # 0) => (region' = region /\ grid' = grid)]_vars

\* a search has made rasters of the caller's region and returned a result
C10_Witness ==
    \E s \in SearchIds :
      /\ searches[s].settled
      /\ searches[s].outcome = "result"
      /\ Len(searches[s].rasterLog) >= 2
      /\ searches[s].region = region

(* C11: with the region and the pose fixed and the signal never aborted, a *)
(* search that has returned holds the result (none, or angle, origin and   *)
(* cellCount), the evaluations and the sample count of the run that never  *)
(* yields, whatever offsets it yielded after.                              *)
C11_YieldIndependent ==
    \A s \in SearchIds :
      searches[s].pc = "returned" =>
        LET sync == NeverYielding(startSearch(region, grid, FALSE), grid)
        IN /\ searches[s].best = sync.best
           /\ searches[s].evals = sync.evals
           /\ searches[s].samples = sync.samples
           /\ searches[s].orientations = sync.orientations

\* a search that yielded has returned a result found after its first evaluation
C11_Witness ==
    \E s \in SearchIds :
      /\ searches[s].pc = "returned"
      /\ searches[s].hasYielded
      /\ ~searches[s].best.isNull
      /\ searches[s].best.cellCount > searches[s].evals[1].count

--------------------------------------------------------------------------
(* Blocks of grid cells.  The cell with index <<i, j>> is the square of    *)
(* side spacing centred at the lattice point <<i, j>> * spacing of the     *)
(* pose, as erodeGridCell and the grid lines of drawGrid have it.          *)

\* the ring around the cells i..i+n-1 by j..j+n-1 of pose g, in world coordinates
CellBlockRing(g, i, j, n) ==
    LET half == g.spacing \div 2
        x0 == g.origin[1] + i * g.spacing - half
        y0 == g.origin[2] + j * g.spacing - half
        x1 == g.origin[1] + (i + n) * g.spacing - half
        y1 == g.origin[2] + (j + n) * g.spacing - half
    IN << <<x0, y0>>, <<x1, y0>>, <<x1, y1>>, <<x0, y1>> >>

CellBlock(i, j, n) == (i..(i + n - 1)) \X (j..(j + n - 1))

\* the cell indices a block of the model can begin at
BlockStarts == 0..2

\* the raster of the region and pose of the state has been made
Rasterized == ~rasterDirty /\ ~raster.isNull

(* C12: for the square ring (0,0), (10,0), (10,10), (0,10) and the pose    *)
(* with origin (0,0), angle 0 and spacing 2, rasterize yields              *)
(* gridCellCount = 25 and insideCells is a contiguous block of 5 by 5      *)
(* cells.                                                                  *)
C12_Example25 ==
    (Rasterized /\ region = ExampleSquare /\ grid.origin = <<0, 0>>) =>
        /\ raster.gridCellCount = 25
        /\ \E i \in -1..1, j \in -1..1 : raster.insideCells = EncodeSet(CellBlock(i, j, 5))

(* C12, amended: for that square and pose rasterize yields                 *)
(* gridCellCount = 16 and insideCells is the block of the 4 by 4 cells     *)
(* with indices 1..4 by 1..4, the cells centred at (2,2) .. (8,8): the     *)
(* cells centred on the sides of the square (index 0 and index 5) reach    *)
(* half a cell beyond it and are outside.                                  *)
C12_Example16 ==
    (Rasterized /\ region = ExampleSquare /\ grid.origin = <<0, 0>>) =>
        /\ raster.gridCellCount = 16
        /\ raster.insideCells = EncodeSet(CellBlock(1, 1, 4))
        /\ InsideCellsAt(raster, raster.gridSampleBounds, <<0, 0>>) = CellBlock(1, 1, 4)

\* the example has been rasterized
C12_Witness ==
    /\ Rasterized
    /\ region = ExampleSquare
    /\ grid.origin = <<0, 0>>
    /\ raster.gridCellCount > 0

(* C13: when the region is one square ring around the block of n by n grid *)
(* cells that begins at cell <<i, j>> of the pose (its sides on the cell   *)
(* boundaries), rasterize at angle 0 reports exactly the cells of that     *)
(* block inside: gridCellCount = n * n and insideCells is that block.      *)
C13_AlignedBlock ==
    \A i \in BlockStarts, j \in BlockStarts, n \in 1..MaxBlock :
      (Rasterized /\ region.polygons = << <<CellBlockRing(grid, i, j, n)>> >>) =>
          /\ raster.gridCellCount = n * n
          /\ raster.insideCells = EncodeSet(CellBlock(i, j, n))
          /\ InsideCellsAt(raster, raster.gridSampleBounds, <<0, 0>>) = CellBlock(i, j, n)

\* a block of more than one cell, away from the pose origin, has been rasterized
C13_Witness ==
    \E i \in BlockStarts, j \in BlockStarts, n \in 2..MaxBlock :
      /\ Rasterized
      /\ grid.origin # <<0, 0>>
      /\ region.polygons = << <<CellBlockRing(grid, i, j, n)>> >>
      /\ raster.gridCellCount = n * n

\* the region is two blocks of n by n cells, the second d cells from the first
TwoBlocks(i, n, d) ==
    region.polygons = << <<CellBlockRing(grid, i, i, n)>>,
                         <<CellBlockRing(grid, i + d[1], i + d[2], n)>> >>

\* shifts that leave an empty cell between the blocks or let them touch at a corner only
ApartShifts(n) == {<<n + 1, 0>>, <<0, n + 1>>, <<n, n>>, <<n + 1, n + 1>>}

(* C14: when the region is two blocks of n by n grid cells with an empty   *)
(* cell between them, or touching at one corner only, gridCellCount is     *)
(* n * n and insideCells is one of the two blocks although the cells of    *)
(* both are inside; and in every raster the cells of insideCells are       *)
(* joined by steps between edge neighbours that are inside.                *)
C14_BlocksNotMerged ==
    /\ \A i \in BlockStarts, n \in 1..MaxBlock : \A d \in ApartShifts(n) :
          (Rasterized /\ TwoBlocks(i, n, d)) =>
              /\ InsideCellsAt(raster, raster.gridSampleBounds, <<0, 0>>)
                    = CellBlock(i, i, n) \cup CellBlock(i + d[1], i + d[2], n)
              /\ raster.gridCellCount = n * n
              /\ raster.insideCells \in {EncodeSet(CellBlock(i, i, n)),
                                         EncodeSet(CellBlock(i + d[1], i + d[2], n))}
    /\ Rasterized =>
          LET I == InsideCellsAt(raster, raster.gridSampleBounds, <<0, 0>>)
          IN \A c \in I : encode(c[1], c[2]) \in raster.insideCells
                             => raster.insideCells = EncodeSet(ComponentOf(c, I))

\* two blocks of more than one cell that touch at a corner have been rasterized
C14_Witness ==
    \E i \in BlockStarts, n \in 2..MaxBlock :
      /\ Rasterized
      /\ TwoBlocks(i, n, <<n, n>>)
      /\ raster.gridCellCount = n * n

--------------------------------------------------------------------------
(* Regions without points and regions without area *)

\* no ring of the region holds a point
NoPoint(rgn) ==
    \A p \in DOMAIN rgn.polygons : \A r \in DOMAIN rgn.polygons[p] : Len(rgn.polygons[p][r]) = 0

\* the region has points and its bounding box has no area
ZeroArea(rgn) ==
    /\ ~rgn.isNull
    /\ ~NoPoint(rgn)
    /\ \/ \A q \in PointsOf(rgn.polygons), r \in PointsOf(rgn.polygons) : q[1] = r[1]
       \/ \A q \in PointsOf(rgn.polygons), r \in PointsOf(rgn.polygons) : q[2] = r[2]

(* C15: rasterize returns none if and only if the region is absent or no   *)
(* ring of it holds a point; a region with at least one point yields a     *)
(* RasterResult.                                                           *)
C15_NoneIffEmpty ==
    ~rasterDirty => (raster.isNull <=> (region.isNull \/ NoPoint(region)))

\* a region of an empty ring and a ring of one point has given a RasterResult
C15_Witness ==
    /\ ~rasterDirty
    /\ ~raster.isNull
    /\ Len(region.polygons) = 2
    /\ NoPoint([region EXCEPT !.polygons = <<region.polygons[1]>>])

(* C16: rasterize returns none for a region that is absent or without a    *)
(* point and also for a region whose bounding box has no area.             *)
C16_NoneForZeroArea ==
    ~rasterDirty => ((region.isNull \/ NoPoint(region) \/ ZeroArea(region)) => raster.isNull)

(* C16, amended: rasterize returns none for a region that is absent or     *)
(* without a point; for a region whose bounding box has no area it returns *)
(* a RasterResult with no occupied mask cell, gridCellCount = 0 and empty  *)
(* insideCells.                                                            *)
C16_ZeroAreaGivesEmptyResult ==
    ~rasterDirty =>
        /\ (region.isNull \/ NoPoint(region)) => raster.isNull
        /\ ZeroArea(region) =>
              /\ ~raster.isNull
              /\ Occupied(raster.mask) = {}
              /\ raster.gridCellCount = 0
              /\ raster.insideCells = {}
              /\ cellCountLabel = 0

\* a region of two points on a line parallel to an axis has been rasterized
C16_Witness ==
    /\ ~rasterDirty
    /\ ZeroArea(region)
    /\ Cardinality(PointsOf(region.polygons)) = 2
    /\ ~raster.isNull


--------------------------------------------------------------------------
(* Reference notions for the candidate angles: the direction of an edge    *)
(* reduced to [0, 90) and its bucket, written without the program's        *)
(* normalisation and binning.                                              *)
DirectionMod90(e) ==
    LET f == Atan2Deg(e[2], e[1])
        k == CHOOSE t \in -2..2 : 0 <= f.n + 90 * t * f.d /\ f.n + 90 * t * f.d < 90 * f.d
    IN Frac(f.n + 90 * k * f.d, f.d)

EdgeDirections(rgn) ==
    IF rgn.isNull THEN {}
    ELSE {DirectionMod90(e) : e \in {d \in EdgeVectors(rgn.polygons) : d # <<0, 0>>}}

BucketOf(f) == CHOOSE b \in 0..89 : b * f.d <= f.n /\ f.n < (b + 1) * f.d

OccupiedBuckets(rgn) == {BucketOf(f) : f \in EdgeDirections(rgn)}

\* the steps the generator is checked with: the model's and the program's
CoarseSteps == {ROTATION_STEP_DEGREES, 5}

\* the distance from candidate i to the next one, circularly, is at most step
GapWithin(cands, i, step) ==
    LET c == cands[i]
        nx == IF i = Len(cands) THEN [n |-> cands[1].n + 90 * cands[1].d, d |-> cands[1].d]
              ELSE cands[i + 1]
    IN nx.n * c.d - c.n * nx.d <= step * c.d * nx.d

\* the search that was called holds exactly these candidates, in this order
HoldsCandidates(c, cands) ==
    /\ Len(c.candidateAngles) = Len(cands)
    /\ \A i \in 1..Len(cands) : c.candidateAngles[i] * cands[i].d = cands[i].n * AngleUnit

Called == searches[1].pc # "idle"

(* C17: every occupied 1-degree bucket (one that holds the direction mod   *)
(* 90 of an edge of non-zero length) is a candidate angle; going round the *)
(* candidates, 90 wrapping to 0, two consecutive ones are at most the      *)
(* coarse step apart (5 degrees in the program); a region without an edge  *)
(* has the single candidate 0; a called search holds these candidates.     *)
C17_CandidateCoverage ==
    /\ \A step \in CoarseSteps :
         LET cands == candidateDegrees(region, step)
         IN IF OccupiedBuckets(region) = {}
            THEN cands = <<Frac(0, 1)>>
            ELSE /\ \A b \in OccupiedBuckets(region) :
                      \E i \in 1..Len(cands) : cands[i] = Frac(b, 1)
                 /\ \A i \in 1..Len(cands) : GapWithin(cands, i, step)
    /\ Called => HoldsCandidates(searches[1], candidateDegrees(region, ROTATION_STEP_DEGREES))

\* a called search of a region with two occupied buckets more than twice
\* the program's step apart: candidates were inserted between them
C17_Witness ==
    /\ Called
    /\ \E a \in OccupiedBuckets(region), b \in OccupiedBuckets(region) :
         /\ b - a > 10
         /\ \A m \in OccupiedBuckets(region) : ~(a < m /\ m < b)
         /\ \E i \in 1..Len(candidateDegrees(region, 5)) :
              candidateDegrees(region, 5)[i].d > 1

(* C18: for every edge of non-zero length, its direction reduced mod 90    *)
(* is one of the candidate angles of the called search, exactly and not    *)
(* only up to the bucket.                                                  *)
C18_EdgeDirectionsTried ==
    Called =>
      \A f \in EdgeDirections(region) :
        \E i \in 1..Len(searches[1].candidateAngles) :
          searches[1].candidateAngles[i] * f.d = f.n * AngleUnit

(* C19: the candidate angles of the search are strictly ascending, so none *)
(* occurs twice, and each is at least 0 and less than 90 degrees.          *)
C19_AscendingBelow90 ==
    /\ \A step \in CoarseSteps :
         LET cands == candidateDegrees(region, step)
         IN /\ \A i \in 1..(Len(cands) - 1) : FracLess(cands[i], cands[i + 1])
            /\ \A i \in 1..Len(cands) : 0 <= cands[i].n /\ cands[i].n < 90 * cands[i].d
    /\ Called =>
         LET angles == searches[1].candidateAngles
         IN /\ HoldsCandidates(searches[1], candidateDegrees(region, ROTATION_STEP_DEGREES))
            /\ \A i \in 1..(Len(angles) - 1) : angles[i] < angles[i + 1]
            /\ \A i \in 1..Len(angles) : 0 <= angles[i] /\ angles[i] < 90 * AngleUnit

\* a called search whose last gap was filled up to the first bucket plus 90
\* degrees, an angle of 90 or more before it is brought back into [0, 90)
C19_Witness ==
    /\ Called
    /\ Len(searches[1].candidateAngles) >= 3
    /\ OccupiedBuckets(region) # {}
    /\ \E b \in OccupiedBuckets(region) : b > 0


--------------------------------------------------------------------------
(* Reference notions for the padding of the mask.  A pose of resolution    *)
(* res has the spacing res raster cells; the centres of its grid cells at  *)
(* the offsets of the search are the lattice points moved by 0..res-1      *)
(* raster cells.                                                           *)
Resolutions == {RASTER_RESOLUTION, ProgramResolution}

SpacingFor(res) == UnitsPerCell * res

RegionBounds == computeGridBoundsGrid(transformRegionToGrid(region, grid))

Centres(lo, hi, res) ==
    {k * SpacingFor(res) + o * UnitsPerCell :
       k \in (Floor(lo, SpacingFor(res)) - 2)..(Ceil(hi, SpacingFor(res)) + 2),
       o \in 0..(res - 1)}

\* the footprint of the cell centred at c meets the interval lo..hi
Overlaps(c, lo, hi, res) ==
    c - SpacingFor(res) \div 2 < hi /\ c + SpacingFor(res) \div 2 > lo

\* the centre c is within lo..hi or at most two raster cells outside it
CentreNear(c, lo, hi) == lo - 2 * UnitsPerCell <= c /\ c <= hi + 2 * UnitsPerCell

ExtentX(res) == maskExtent(RegionBounds.minX, RegionBounds.maxX, SpacingFor(res), res)

ExtentY(res) == maskExtent(RegionBounds.minY, RegionBounds.maxY, SpacingFor(res), res)

\* the centres along x (axis 1) or y (axis 2) whose cell meets the box
OverlappingCentres(axis, res) ==
    LET b == RegionBounds
        lo == IF axis = 1 THEN b.minX ELSE b.minY
        hi == IF axis = 1 THEN b.maxX ELSE b.maxY
    IN {c \in Centres(lo, hi, res) : Overlaps(c, lo, hi, res)}

\* the centres along an axis that are in the box or near it
NearCentres(axis, res) ==
    LET b == RegionBounds
        lo == IF axis = 1 THEN b.minX ELSE b.minY
        hi == IF axis = 1 THEN b.maxX ELSE b.maxY
    IN {c \in Centres(lo, hi, res) : CentreNear(c, lo, hi)}

\* the centres along an axis whose cell is within the box
WithinCentres(axis, res) ==
    LET b == RegionBounds
        lo == IF axis = 1 THEN b.minX ELSE b.minY
        hi == IF axis = 1 THEN b.maxX ELSE b.maxY
    IN {c \in Centres(lo, hi, res) :
          lo <= c - SpacingFor(res) \div 2 /\ c + SpacingFor(res) \div 2 <= hi}

\* the centres of a set whose footprint is within the mask along the axis
InMaskCentres(cs, axis, res) ==
    LET extent == IF axis = 1 THEN ExtentX(res) ELSE ExtentY(res)
    IN {c \in cs : footprintInMask(extent, SpacingFor(res), c)}

\* the extents agree with the mask that rasterizeRegion made
ExtentsOfRaster ==
    LET ex == ExtentX(RASTER_RESOLUTION)
        ey == ExtentY(RASTER_RESOLUTION)
        b == RegionBounds
        xs == Centres(b.minX, b.maxX, RASTER_RESOLUTION)
        ys == Centres(b.minY, b.maxY, RASTER_RESOLUTION)
        inX == InMaskCentres(xs, 1, RASTER_RESOLUTION)
        inY == InMaskCentres(ys, 2, RASTER_RESOLUTION)
    IN /\ raster.mask.originGrid = <<ex.origin, ey.origin>>
       /\ raster.mask.width = ex.width
       /\ raster.mask.height = ey.width
       /\ raster.mask.cellSize = ex.cellSize
       /\ raster.gridSpacing = SpacingFor(RASTER_RESOLUTION)
       /\ \A cx \in xs, cy \in ys :
            erodeGridCell(raster, <<cx, cy>>) => (cx \in inX /\ cy \in inY)

(* C20 as stated: with the padding max(2, ceil((spacing/2)/cellSize) + 2), *)
(* every grid cell, at every offset of the search, whose footprint         *)
(* overlaps the bounding box of the region lies wholly within the mask.    *)
C20_OverlappingNeverClipped ==
    Rasterized =>
      \A res \in Resolutions :
        LET xs == OverlappingCentres(1, res)
            ys == OverlappingCentres(2, res)
            inX == InMaskCentres(xs, 1, res)
            inY == InMaskCentres(ys, 2, res)
        IN \A cx \in xs, cy \in ys : cx \in inX /\ cy \in inY

(* C20, amended: with that padding every grid cell, at every offset of the *)
(* search, whose centre lies within the bounding box of the region or at   *)
(* most two raster cells outside it lies wholly within the mask; every     *)
(* cell that lies wholly within the bounding box lies within the mask, so  *)
(* a cell cut by the edge of the mask is one that is not inside the        *)
(* region, which is what the classifier reports for it.                    *)
C20_CentredNeverClipped ==
    Rasterized =>
      /\ ExtentsOfRaster
      /\ \A res \in Resolutions :
           LET xs == NearCentres(1, res)
               ys == NearCentres(2, res)
               inX == InMaskCentres(xs, 1, res)
               inY == InMaskCentres(ys, 2, res)
               wx == WithinCentres(1, res)
               wy == WithinCentres(2, res)
               winX == InMaskCentres(wx, 1, res)
               winY == InMaskCentres(wy, 2, res)
           IN /\ \A cx \in xs, cy \in ys : cx \in inX /\ cy \in inY
              /\ \A cx \in wx, cy \in wy : cx \in winX /\ cy \in winY

\* a raster of a region with area; at the program's resolution a grid cell
\* with its centre in the bounding box reaches beyond the box and is within
\* the mask, and another overlaps the box and is not within the mask
C20_Witness ==
    /\ Rasterized
    /\ RegionBounds.minX < RegionBounds.maxX
    /\ RegionBounds.minY < RegionBounds.maxY
    /\ \E cx \in InMaskCentres(NearCentres(1, ProgramResolution), 1, ProgramResolution) :
         cx - SpacingFor(ProgramResolution) \div 2 < RegionBounds.minX
    /\ OverlappingCentres(1, ProgramResolution)
         # InMaskCentres(OverlappingCentres(1, ProgramResolution), 1, ProgramResolution)


--------------------------------------------------------------------------
(* C21: gridSampleBounds, and the lattice bounds of every offset of the    *)
(* search, reach at least one whole grid cell beyond the indices of the    *)
(* mask's extent on every side: minX <= floor(maskMinX / spacing) - 1,     *)
(* maxX >= ceil(maskMaxX / spacing) + 1, and likewise for Y (for an offset *)
(* the extent is taken relative to the offset).                            *)
C21_SampleBoundsSlack ==
    Rasterized =>
      LET m == raster.mask
          s == raster.gridSpacing
          Slack(b, o) ==
              /\ b.minX <= Floor(m.originGrid[1] - o[1], s) - 1
              /\ b.minY <= Floor(m.originGrid[2] - o[2], s) - 1
              /\ b.maxX >= Ceil(m.originGrid[1] + m.width * m.cellSize - o[1], s) + 1
              /\ b.maxY >= Ceil(m.originGrid[2] + m.height * m.cellSize - o[2], s) + 1
      IN /\ Slack(raster.gridSampleBounds, <<0, 0>>)
         /\ \A o \in Offsets : Slack(computeGridSampleBoundsWithOffset(m, s, o), o)


--------------------------------------------------------------------------
(* Reference notion for the fill: the centre of raster cell (x, y) is      *)
(* inside a polygon when the rings of that polygon alone cross a ray from  *)
(* it an odd number of times (coordinates doubled, so that the centre is   *)
(* whole).                                                                 *)
InsidePolygon(poly, m, x, y) ==
    LET doubled == [r \in DOMAIN poly |->
                     [k \in DOMAIN poly[r] |-> <<2 * poly[r][k][1], 2 * poly[r][k][2]>>]]
        cx == 2 * m.originGrid[1] + (2 * x + 1) * m.cellSize
        cy == 2 * m.originGrid[2] + (2 * y + 1) * m.cellSize
    IN SumSeq([r \in DOMAIN doubled |-> RingCrossings(doubled[r], cx, cy)]) % 2 = 1

(* C22: a raster cell is occupied iff it is inside at least one polygon of *)
(* the region, inside a polygon being decided by the even-odd rule over    *)
(* the rings of that polygon only: the area that two polygons of the       *)
(* region both cover is occupied.                                          *)
C22_UnionOfPolygons ==
    Rasterized =>
      LET m == raster.mask
          regionGrid == transformRegionToGrid(region, grid)
      IN \A x \in 0..(m.width - 1), y \in 0..(m.height - 1) :
           (m.data[y * m.width + x] = 1)
             <=> \E p \in DOMAIN regionGrid : InsidePolygon(regionGrid[p], m, x, y)


--------------------------------------------------------------------------
\* the order of the scan: rows (gy) ascending, within a row gx ascending
RowMajorLess(a, b) == a[2] < b[2] \/ (a[2] = b[2] /\ a[1] < b[1])

FirstCell(S) == CHOOSE c \in S : \A d \in S : d = c \/ RowMajorLess(c, d)

\* the inside cells that lie in a component of maximal size
InLargest(I) == {c \in I : Cardinality(ComponentOf(c, I)) = LargestSize(I)}

(* C23: when several components have the maximal size, insideCells is the  *)
(* one whose first cell comes earliest in the row-major scan; a later      *)
(* component of equal size does not replace it.                            *)
C23_FirstOfTies ==
    Rasterized =>
      LET I == InsideCellsAt(raster, raster.gridSampleBounds, <<0, 0>>)
      IN I # {} => raster.insideCells = EncodeSet(ComponentOf(FirstCell(InLargest(I)), I))

\* a raster with two components of maximal size
C23_Witness ==
    /\ Rasterized
    /\ LET I == InsideCellsAt(raster, raster.gridSampleBounds, <<0, 0>>)
       IN \E c \in InLargest(I), d \in InLargest(I) : d \notin ComponentOf(c, I)


--------------------------------------------------------------------------
(* C24: in one run of the flood fill every lattice point within the        *)
(* lattice bounds is classified exactly once and enqueued at most once, no *)
(* point outside the bounds is classified or enqueued, and every inside    *)
(* cell is counted in exactly one component: the enqueued points are the   *)
(* inside cells and the component sizes add up to their number.  The run   *)
(* returns what countLargestComponentWithOffset returns, and at offset     *)
(* (0, 0) what computeLargestComponent counted.                            *)
C24_EachPointOnce ==
    Rasterized =>
      \A o \in Offsets :
        LET b == computeGridSampleBoundsWithOffset(raster.mask, raster.gridSpacing, o)
            run == countLargestComponentTrace(raster, o)
            I == InsideCellsAt(raster, b, o)
        IN /\ Len(run.classified) = Cardinality(Lattice(b))
           /\ Range(run.classified) = Lattice(b)
           /\ Len(run.enqueued) = Cardinality(Range(run.enqueued))
           /\ Range(run.enqueued) = I
           /\ SumSeq(run.sizes) = Cardinality(I)
           /\ run.bestCount = countLargestComponentWithOffset(raster, o)
           /\ o = <<0, 0>> => run.bestCount = raster.gridCellCount

\* a run over a raster with two components, at an offset that is not zero
C24_Witness ==
    /\ Rasterized
    /\ \E o \in Offsets \ {<<0, 0>>} :
         /\ Len(countLargestComponentTrace(raster, o).sizes) >= 2
         /\ \E i \in 1..Len(countLargestComponentTrace(raster, o).sizes) :
              countLargestComponentTrace(raster, o).sizes[i] >= 2


--------------------------------------------------------------------------
(* C25: the flood fill that keeps its visited cells in a dense buffer      *)
(* indexed by (y - minY) * width + (x - minX) returns the same count of    *)
(* the largest component as the flood fill that keeps them in a set of     *)
(* "x,y" keys, for every mask and every offset.                            *)
C25_DenseEqualsKeys ==
    Rasterized =>
      \A o \in Offsets :
        countLargestComponentWithOffset(raster, o)
          = countLargestComponentWithOffsetKeys(raster, o)

\* a raster in which the count at an offset is positive and differs from
\* the count at another offset
C25_Witness ==
    /\ Rasterized
    /\ \E o \in Offsets, q \in Offsets :
         /\ countLargestComponentWithOffsetKeys(raster, o) > 0
         /\ countLargestComponentWithOffsetKeys(raster, o)
              # countLargestComponentWithOffsetKeys(raster, q)


--------------------------------------------------------------------------
\* what the label shows for a raster
LabelOf(r) == IF r.isNull THEN 0 ELSE r.gridCellCount

(* C26: every change of the region or of the pose marks the raster dirty;  *)
(* the update that finds it dirty stores rasterize(region, pose) of that   *)
(* moment and shows its count (0 for none); whenever rasterDirty is false  *)
(* the stored raster and the count shown are those of the current region   *)
(* and pose.                                                               *)
C26_DirtyOnEveryChange ==
    /\ [](~rasterDirty =>
            /\ raster = rasterizeRegion(region, grid)
            /\ cellCountLabel = LabelOf(raster))
    /\ [][/\ (region' # region \/ grid' # grid) => rasterDirty'
          /\ (rasterDirty /\ ~rasterDirty') =>
               /\ raster' = rasterizeRegion(region', grid')
               /\ cellCountLabel' = LabelOf(raster')]_vars

\* the raster is up to date after a result of the search was applied to a
\* pose that the user had moved, and it shows a count
C26_Witness ==
    /\ ~rasterDirty
    /\ ~raster.isNull
    /\ raster.gridCellCount > 0
    /\ grid.angle # 0
    /\ \E s \in SearchIds : searches[s].committed


--------------------------------------------------------------------------
\* the bounds b and the cells up to two rows and columns beyond them
Beyond(b) ==
    [minX |-> b.minX - 2, maxX |-> b.maxX + 2, minY |-> b.minY - 2, maxY |-> b.maxY + 2]

StrictlyWithin(c, b) ==
    b.minX < c[1] /\ c[1] < b.maxX /\ b.minY < c[2] /\ c[2] < b.maxY

(* C27: at every offset, a cell the classifier reports inside lies         *)
(* strictly within the lattice bounds of the flood fill; the cells of the  *)
(* outermost rows and columns and the cells beyond are outside, so the     *)
(* count of the flood fill is the size of the largest component among all  *)
(* inside cells, those beyond the bounds included.                         *)
C27_InsideStrictlyWithinLattice ==
    Rasterized =>
      \A o \in Offsets :
        LET b == computeGridSampleBoundsWithOffset(raster.mask, raster.gridSpacing, o)
            I == InsideCellsAt(raster, Beyond(b), o)
        IN /\ \A c \in I : StrictlyWithin(c, b)
           /\ countLargestComponentWithOffset(raster, o) = LargestSize(I)

\* a raster with inside cells at an offset that is not zero, whose lattice
\* has an outermost column that reaches into the mask
C27_Witness ==
    /\ Rasterized
    /\ \E o \in Offsets \ {<<0, 0>>} :
         LET b == computeGridSampleBoundsWithOffset(raster.mask, raster.gridSpacing, o)
         IN /\ InsideCellsAt(raster, b, o) # {}
            /\ b.minX * raster.gridSpacing + o[1] + raster.gridSpacing \div 2
                 > raster.mask.originGrid[1]


--------------------------------------------------------------------------
--------------------------------------------------------------------------
(* C29: the .then of a search writes its result to the pose only if the    *)
(* search was not cancelled and the region and the pose are still those    *)
(* the search was started with.                                            *)
C29_AppliedOnlyIfUnchanged ==
    [][\A s \in SearchIds :
         (~searches[s].committed /\ searches'[s].committed) =>
           /\ ~searches[s].aborted
           /\ region = searches[s].region
           /\ grid = searches[s].callPose]_vars


--------------------------------------------------------------------------
\* the step settles the promise of search s: its .then or its .catch runs
Settles(s) == ~searches[s].settled /\ searches'[s].settled

(* C30: the toolbar is aligning exactly when alignAbortController holds a  *)
(* controller; when the search of that controller completes, fails or is   *)
(* cancelled the controller is dropped, and the toolbar is aligning after  *)
(* the step only for a search begun in that step; the .then or .catch of a *)
(* cancelled search changes neither the flag nor the controller and logs   *)
(* no error.                                                               *)
C30_AligningIffController ==
    /\ [](aligning <=> alignAbortController # 0)
    /\ [][\A s \in SearchIds :
            /\ (alignAbortController = s
                  /\ (Settles(s) \/ (~searches[s].aborted /\ searches'[s].aborted)))
                 => /\ alignAbortController' # s
                    /\ aligning' => searches[alignAbortController'].pc = "idle"
            /\ (Settles(s) /\ searches[s].aborted)
                 => /\ UNCHANGED <<aligning, alignAbortController>>
                    /\ ~searches'[s].logged]_vars

\* a cancelled search has settled without a call of console.error, and a
\* search that failed has settled with one
C30_Witness ==
    \E s, t \in SearchIds :
      /\ searches[s].settled /\ searches[s].aborted /\ ~searches[s].logged
      /\ searches[t].settled /\ searches[t].logged
      /\ ~aligning

====
